---- MODULE Spec2Model ----
(***************************************************************************)
(* Model of the SWC bundler of dctc (lib/complie_swc.js): specifier        *)
(* classification, path resolution, the recursive module-graph traversal,  *)
(* the require rewriter and the run-time loader of the emitted bundle.     *)
(*                                                                         *)
(* JavaScript strings are sequences of one-character strings, so that      *)
(* path arithmetic, regular expressions and escaping are computed          *)
(* character by character, as the code computes them.                      *)
(***************************************************************************)
EXTENDS Integers, Sequences, FiniteSets, TLC

VARIABLES
    fsFiles,      \* paths that exist and are regular files
    fsDirs,       \* paths that exist and are directories
    rBase,        \* resolver run: the basePath handed to resolveWithExt
    rResult,      \* resolver run: the value returned
    rPc,          \* resolver run: "call" before the call, "done" after it
    wStmts,       \* rewriter run: the statements of transformedCode
    wMap,         \* rewriter run: requireMap, entries in insertion order
    wOut,         \* rewriter run: the value returned
    wPc,          \* rewriter run: "call" before the call, "done" after it
    fsSrc,        \* file path -> the text of the file
    fsReq,        \* file path -> the specifiers its text requires, as the
                  \* project's author wrote them (never read by the program)
    stack,        \* build: the activations of loadModule, innermost last
    modules,      \* build: the table `modules`, records in insertion order
    requireMaps,  \* build: `requireMaps`, id -> dependency map
    visiting,     \* build: the set `visiting`
    visited,      \* build: the set `visited`
    status,       \* build: "running", "catch", "resolved" or "rejected"
    thrown,       \* build: the error object thrown inside the try block
    outcome,      \* build: the bundle returned, or the rejection value
    entryAbs,     \* build: entryAbs, the resolved path of the entry file
    entered,      \* build history: id -> number of times loadModule passed
                  \* its two guards for that id
    steps,        \* build history: number of steps taken so far
    rtState,      \* run: "idle", "running", "done" or "threw"
    rtCache,      \* run: __dctc_cache, id -> module object
    rtExports,    \* run: module object -> the value of its `exports` property
    rtStack,      \* run: the activations of module bodies, innermost last
    rtAlloc,      \* run: number of objects created so far
    rtTrace,      \* run history: bodies started and values returned by the loader
    proc,         \* process: which build is running, and the other build's state
    jsonFile,     \* a JSON file on its way from its text to the loaded exports
    cli,          \* the dctc command: arguments, loop position, choices, exit
    call          \* a call of a helper function: its argument and its outcome

fsVars == <<fsFiles, fsDirs, fsSrc, fsReq>>
resolveVars == <<rBase, rResult, rPc>>
rewriteVars == <<wStmts, wMap, wOut, wPc>>
buildVars == <<stack, modules, requireMaps, visiting, visited, status, thrown,
               outcome, entryAbs, entered, steps>>
runVars == <<rtState, rtCache, rtExports, rtStack, rtAlloc, rtTrace>>
vars == <<fsFiles, fsDirs, fsSrc, fsReq, rBase, rResult, rPc, wStmts, wMap, wOut, wPc,
          stack, modules, requireMaps, visiting, visited, status, thrown,
          outcome, entryAbs, entered, steps,
          rtState, rtCache, rtExports, rtStack, rtAlloc, rtTrace, proc, jsonFile, cli, call>>

NULL == <<"n", "u", "l", "l", "#">>   \* JavaScript null (no path has this form)

\* no error thrown yet, nothing returned yet
NoValue == [kind |-> "none", at |-> <<>>]

-----------------------------------------------------------------------------
(* String helpers (String.prototype)                                       *)

StartsWith(s, p) ==
    /\ Len(s) >= Len(p)
    /\ SubSeq(s, 1, Len(p)) = p

RECURSIVE LastIndexOf(_, _, _)
\* the largest i <= from with s[i] = c, or 0
LastIndexOf(s, c, from) ==
    IF from = 0 THEN 0
    ELSE IF s[from] = c THEN from
    ELSE LastIndexOf(s, c, from - 1)

LowerChar(c) ==
    CASE c = "J" -> "j"
      [] c = "S" -> "s"
      [] c = "O" -> "o"
      [] c = "N" -> "n"
      [] c = "T" -> "t"
      [] c = "X" -> "x"
      [] OTHER -> c

ToLowerCase(s) == [i \in 1..Len(s) |-> LowerChar(s[i])]

-----------------------------------------------------------------------------
(* Node's path module, POSIX flavour                                       *)

RECURSIVE SplitSlash(_, _, _)
\* the segments of s between "/" characters; cur is the segment being read
SplitSlash(s, i, cur) ==
    IF i > Len(s) THEN <<cur>>
    ELSE IF s[i] = "/" THEN <<cur>> \o SplitSlash(s, i + 1, <<>>)
    ELSE SplitSlash(s, i + 1, Append(cur, s[i]))

RECURSIVE NormalizeSegs(_, _)
\* drops "" and ".", and lets ".." remove the segment before it
NormalizeSegs(segs, acc) ==
    IF segs = <<>> THEN acc
    ELSE LET h == Head(segs)
             t == Tail(segs)
         IN  IF h = <<>> \/ h = <<".">> THEN NormalizeSegs(t, acc)
             ELSE IF h = <<".", ".">>
                  THEN NormalizeSegs(t, IF acc = <<>> THEN acc
                                        ELSE SubSeq(acc, 1, Len(acc) - 1))
             ELSE NormalizeSegs(t, Append(acc, h))

RECURSIVE JoinSlash(_)
JoinSlash(segs) ==
    IF segs = <<>> THEN <<>>
    ELSE <<"/">> \o Head(segs) \o JoinSlash(Tail(segs))

\* path.resolve(p) for an absolute p
PathNormalizeAbs(p) ==
    LET segs == NormalizeSegs(SplitSlash(p, 1, <<>>), <<>>)
    IN  IF segs = <<>> THEN <<"/">> ELSE JoinSlash(segs)

\* path.resolve(base, p), base absolute
PathResolve(base, p) ==
    IF StartsWith(p, <<"/">>) THEN PathNormalizeAbs(p)
    ELSE PathNormalizeAbs(base \o <<"/">> \o p)

\* path.join(base, p), base absolute
PathJoin(base, p) == PathNormalizeAbs(base \o <<"/">> \o p)

\* path.dirname(p) for a normalized absolute p
PathDirname(p) ==
    LET k == LastIndexOf(p, "/", Len(p))
    IN  IF k <= 1 THEN <<"/">> ELSE SubSeq(p, 1, k - 1)

\* path.basename(p)
PathBasename(p) == SubSeq(p, LastIndexOf(p, "/", Len(p)) + 1, Len(p))

\* path.extname(p): from the last "." of the basename, unless that "." is
\* its first character
PathExtname(p) ==
    LET b == PathBasename(p)
        k == LastIndexOf(b, ".", Len(b))
    IN  IF k <= 1 \/ b = <<".", ".">> THEN <<>> ELSE SubSeq(b, k, Len(b))

-----------------------------------------------------------------------------
(* complie_swc.js: classifier and resolver                                 *)

LOCAL_EXTS_TsxFirst ==
    << <<".", "t", "s", "x">>, <<".", "t", "s">>, <<".", "j", "s">>,
       <<".", "j", "s", "x">>, <<".", "j", "s", "o", "n">> >>

LOCAL_EXTS ==
    << <<".", "t", "s">>, <<".", "t", "s", "x">>, <<".", "j", "s">>,
       <<".", "j", "s", "x">>, <<".", "j", "s", "o", "n">> >>

\* JavaScript values: t is the kind, n the number, s the string, items the
\* elements of an array or the members [k, v] of an object in creation order
JNull == [t |-> "null", n |-> 0, s |-> <<>>, items |-> <<>>]
JTrue == [t |-> "true", n |-> 0, s |-> <<>>, items |-> <<>>]
JFalse == [t |-> "false", n |-> 0, s |-> <<>>, items |-> <<>>]
JNum(n) == [t |-> "num", n |-> n, s |-> <<>>, items |-> <<>>]
JInfinity == [t |-> "inf", n |-> 0, s |-> <<>>, items |-> <<>>]
JStr(s) == [t |-> "str", n |-> 0, s |-> s, items |-> <<>>]
JArr(items) == [t |-> "arr", n |-> 0, s |-> <<>>, items |-> items]
JObj(items) == [t |-> "obj", n |-> 0, s |-> <<>>, items |-> items]
JUndefined == [t |-> "undefined", n |-> 0, s |-> <<>>, items |-> <<>>]

\* a TypeError thrown instead of a value returned
TypeError == [t |-> "TypeError", n |-> 0, s |-> <<>>, items |-> <<>>]

\* the typeof operator
TypeOf(v) ==
    CASE v.t = "str" -> "string"
      [] v.t \in {"num", "inf"} -> "number"
      [] v.t \in {"true", "false"} -> "boolean"
      [] v.t = "undefined" -> "undefined"
      [] OTHER -> "object"

\* spec.startsWith(p): only a string has the method
CallStartsWith(spec, p) ==
    IF TypeOf(spec) # "string" THEN TypeError
    ELSE IF StartsWith(spec.s, p) THEN JTrue ELSE JFalse

\* the function without its typeof test
isLocalSpecifier_NoTypeTest(spec) ==
    IF CallStartsWith(spec, <<".">>) = JTrue THEN JTrue
    ELSE CallStartsWith(spec, <<"/">>)

\* lines 36-38: typeof spec === "string" && (spec.startsWith(".") ||
\* spec.startsWith("/")); the value returned, or the error thrown
isLocalSpecifier(spec) ==
    IF TypeOf(spec) # "string" THEN JFalse
    ELSE IF CallStartsWith(spec, <<".">>) = JTrue THEN JTrue
    ELSE CallStartsWith(spec, <<"/">>)

fileExists(p) == p \in fsFiles

dirExists(p) == p \in fsDirs

RECURSIVE FirstFile(_)
\* the body shared by the two for-loops: the first candidate that is a file
FirstFile(cands) ==
    IF cands = <<>> THEN NULL
    ELSE IF fileExists(Head(cands)) THEN Head(cands)
    ELSE FirstFile(Tail(cands))

INDEX == <<"i", "n", "d", "e", "x">>

\* a resolution that accepts any existing path, a directory included
resolveWithExt_AnyExisting(basePath) ==
    IF fileExists(basePath) \/ dirExists(basePath) THEN basePath
    ELSE FirstFile([i \in 1..Len(LOCAL_EXTS) |-> basePath \o LOCAL_EXTS[i]])

resolveWithExt(basePath) ==
    IF fileExists(basePath) THEN basePath
    ELSE LET byExt == FirstFile([i \in 1..Len(LOCAL_EXTS) |->
                                   basePath \o LOCAL_EXTS[i]])
         IN  IF byExt # NULL THEN byExt
             ELSE IF dirExists(basePath)
                  THEN FirstFile([i \in 1..Len(LOCAL_EXTS) |->
                                    PathJoin(basePath, INDEX \o LOCAL_EXTS[i])])
                  ELSE NULL

-----------------------------------------------------------------------------
(* Module text.  The modules of the model are written in a small CommonJS  *)
(* subset: a text is a sequence of statements, each followed by ";".       *)

REQUIRE == <<"r", "e", "q", "u", "i", "r", "e">>

DCTC_REQUIRE == <<"_", "_", "d", "c", "t", "c", "_">> \o REQUIRE

\* a call statement: callee(<quote>spec<quote>), or callee(n) when lit is FALSE
Stmt(callee, quote, spec) ==
    [type |-> "call", lit |-> TRUE, callee |-> callee, quote |-> quote,
     spec |-> spec]

DynStmt ==
    [type |-> "call", lit |-> FALSE, callee |-> REQUIRE, quote |-> "",
     spec |-> <<"n">>]

MODULE_EXPORTS ==
    <<"m", "o", "d", "u", "l", "e", ".", "e", "x", "p", "o", "r", "t", "s">>

\* an assignment statement: module.exports=<value>
AssignStmt(value) ==
    [type |-> "assign", lit |-> FALSE, callee |-> MODULE_EXPORTS, quote |-> "",
     spec |-> value]

USE_STRICT == <<"\"", "u", "s", "e", " ", "s", "t", "r", "i", "c", "t", "\"">>

DirectiveStmt ==
    [type |-> "directive", lit |-> FALSE, callee |-> <<>>, quote |-> "",
     spec |-> USE_STRICT]

TRY_OPEN == <<"t", "r", "y", "{">>

TRY_CLOSE == <<"}", "c", "a", "t", "c", "h", "(", "e", ")", "{", "}">>

\* a call on a literal inside a try statement with an empty handler:
\* try{callee(<quote>spec<quote>)}catch(e){}
TryStmt(callee, quote, spec) ==
    [type |-> "try", lit |-> TRUE, callee |-> callee, quote |-> quote,
     spec |-> spec]

StmtText(st) ==
    IF st.type = "directive" THEN st.spec
    ELSE IF st.type = "assign" THEN st.callee \o <<"=">> \o st.spec
    ELSE IF st.type = "try"
    THEN TRY_OPEN \o st.callee \o <<"(", st.quote>> \o st.spec
            \o <<st.quote, ")">> \o TRY_CLOSE
    ELSE IF st.lit
    THEN st.callee \o <<"(", st.quote>> \o st.spec \o <<st.quote, ")">>
    ELSE st.callee \o <<"(">> \o st.spec \o <<")">>

RECURSIVE StmtsText(_)
\* the statements, each followed by ";"
StmtsText(stmts) ==
    IF stmts = <<>> THEN <<>>
    ELSE StmtText(Head(stmts)) \o <<";">> \o StmtsText(Tail(stmts))

SeqsUpTo(S, n) == UNION {[1..k -> S] : k \in 0..n}

\* a text cut at its ";" characters (no id or specifier of the model
\* contains one)
SplitSemi(s) ==
    LET at    == {p \in 1..Len(s) : s[p] = ";"}
        nth   == [k \in 1..Cardinality(at) |->
                    CHOOSE p \in at : Cardinality({q \in at : q <= p}) = k]
        start == [k \in 1..Cardinality(at) |-> IF k = 1 THEN 1 ELSE nth[k - 1] + 1]
    IN  [k \in 1..Cardinality(at) |-> SubSeq(s, start[k], nth[k] - 1)]

-----------------------------------------------------------------------------
(* Regular expressions (RegExp, String.prototype.replace), restricted to   *)
(* the syntax the rewriter's patterns can contain: literal characters,     *)
(* backslash escapes, the word boundary \b, the wildcard "." and the       *)
(* quantifiers "+", "*" and "?".                                           *)

WordChars ==
    {"a", "b", "c", "d", "e", "f", "g", "h", "i", "j", "k", "l", "m", "n",
     "o", "p", "q", "r", "s", "t", "u", "v", "w", "x", "y", "z",
     "A", "B", "C", "D", "E", "F", "G", "H", "I", "J", "K", "L", "M", "N",
     "O", "P", "Q", "R", "S", "T", "U", "V", "W", "X", "Y", "Z",
     "0", "1", "2", "3", "4", "5", "6", "7", "8", "9", "_"}

Quantifiers == {"+", "*", "?"}

RECURSIVE ParseRegex(_, _)
\* the atoms of pattern text pat from position i on:
\* [k |-> "lit" | "any" | "wb", c |-> character, q |-> "1" | "+" | "*" | "?"]
ParseRegex(pat, i) ==
    IF i > Len(pat) THEN <<>>
    ELSE LET esc  == pat[i] = "\\" /\ i < Len(pat)
             n    == IF esc THEN i + 2 ELSE i + 1
             kind == IF esc THEN (IF pat[i + 1] = "b" THEN "wb" ELSE "lit")
                     ELSE IF pat[i] = "." THEN "any" ELSE "lit"
             ch   == IF esc THEN pat[i + 1] ELSE pat[i]
             hasQ == n <= Len(pat) /\ pat[n] \in Quantifiers /\ kind # "wb"
         IN  <<[k |-> kind, c |-> ch, q |-> IF hasQ THEN pat[n] ELSE "1"]>>
             \o ParseRegex(pat, IF hasQ THEN n + 1 ELSE n)

IsWordAt(s, j) == j >= 1 /\ j <= Len(s) /\ s[j] \in WordChars

\* \b holds between positions j-1 and j
WordBoundary(s, j) == IsWordAt(s, j - 1) # IsWordAt(s, j)

Fits(atom, s, j) ==
    /\ j <= Len(s)
    /\ \/ atom.k = "any" /\ s[j] # "\n"
       \/ atom.k = "lit" /\ s[j] = atom.c

RECURSIVE RunLength(_, _, _)
\* how many consecutive characters from position j fit the atom
RunLength(atom, s, j) ==
    IF Fits(atom, s, j) THEN 1 + RunLength(atom, s, j + 1) ELSE 0

NoMatch == 0

RECURSIVE MatchFrom(_, _, _, _)
RECURSIVE TryCounts(_, _, _, _, _, _)
\* backtracking match of atoms[i..] at position j of s: the position after
\* the match that the engine finds first (greedy quantifiers), or NoMatch
MatchFrom(atoms, i, s, j) ==
    IF i > Len(atoms) THEN j
    ELSE LET a == atoms[i]
         IN  IF a.k = "wb"
             THEN IF WordBoundary(s, j) THEN MatchFrom(atoms, i + 1, s, j)
                  ELSE NoMatch
             ELSE LET run == RunLength(a, s, j)
                      hi  == IF a.q \in {"1", "?"}
                             THEN (IF run >= 1 THEN 1 ELSE 0) ELSE run
                      lo  == IF a.q \in {"1", "+"} THEN 1 ELSE 0
                  IN  TryCounts(atoms, i, s, j, hi, lo)

\* tries hi, hi-1, ..., lo repetitions of atoms[i]
TryCounts(atoms, i, s, j, n, lo) ==
    IF n < lo THEN NoMatch
    ELSE LET e == MatchFrom(atoms, i + 1, s, j + n)
         IN  IF e # NoMatch THEN e
             ELSE TryCounts(atoms, i, s, j, n - 1, lo)

RECURSIVE Substitute(_, _, _, _, _)
\* GetSubstitution: the replacement text repl from position i on, for the
\* match s[from .. to-1]; the patterns have no capture groups
Substitute(repl, i, s, from, to) ==
    IF i > Len(repl) THEN <<>>
    ELSE IF repl[i] = "$" /\ i < Len(repl) /\ repl[i + 1] = "$"
         THEN <<"$">> \o Substitute(repl, i + 2, s, from, to)
    ELSE IF repl[i] = "$" /\ i < Len(repl) /\ repl[i + 1] = "&"
         THEN SubSeq(s, from, to - 1) \o Substitute(repl, i + 2, s, from, to)
    ELSE IF repl[i] = "$" /\ i < Len(repl) /\ repl[i + 1] = "`"
         THEN SubSeq(s, 1, from - 1) \o Substitute(repl, i + 2, s, from, to)
    ELSE IF repl[i] = "$" /\ i < Len(repl) /\ repl[i + 1] = "'"
         THEN SubSeq(s, to, Len(s)) \o Substitute(repl, i + 2, s, from, to)
    ELSE <<repl[i]>> \o Substitute(repl, i + 1, s, from, to)

\* the first position p >= j at which the pattern matches a non-empty
\* piece of s, or 0
NextMatch(atoms, s, j) ==
    LET hits == {p \in j..Len(s) :
                    LET e == MatchFrom(atoms, 1, s, p)
                    IN  e # NoMatch /\ e > p}
    IN  IF hits = {} THEN 0 ELSE CHOOSE p \in hits : \A q \in hits : p <= q

RECURSIVE ReplaceFrom(_, _, _, _)
\* s.replace(new RegExp(pattern, "g"), repl), scanning from position j
ReplaceFrom(atoms, s, repl, j) ==
    LET p == NextMatch(atoms, s, j)
    IN  IF p = 0 THEN SubSeq(s, j, Len(s))
        ELSE LET e == MatchFrom(atoms, 1, s, p)
             IN  SubSeq(s, j, p - 1) \o Substitute(repl, 1, s, p, e)
                    \o ReplaceFrom(atoms, s, repl, e)

ReplaceAll(s, pat, repl) == ReplaceFrom(ParseRegex(pat, 1), s, repl, 1)

-----------------------------------------------------------------------------
(* complie_swc.js: escaping and the require rewriter                       *)

RECURSIVE FlatMap(_, _)
FlatMap(s, f) == IF s = <<>> THEN <<>> ELSE f[Head(s)] \o FlatMap(Tail(s), f)

Chars(s) == {s[i] : i \in 1..Len(s)}

\* .replace(/\\/g, "\\\\").replace(/"/g, '\\"')
escapeForJsString(str) ==
    LET step1 == FlatMap(str, [c \in Chars(str) |->
                     IF c = "\\" THEN <<"\\", "\\">> ELSE <<c>>])
    IN  FlatMap(step1, [c \in Chars(step1) |->
                     IF c = "\"" THEN <<"\\", "\"">> ELSE <<c>>])

RegexMeta ==
    {".", "*", "+", "?", "^", "$", "{", "}", "(", ")", "|", "[", "]", "\\"}

escapeForRegex_None(str) == str

\* .replace(/[.*+?^${}()|[\]\\]/g, "\\$&")
escapeForRegex(str) ==
    FlatMap(str, [c \in Chars(str) |->
                     IF c \in RegexMeta THEN <<"\\", c>> ELSE <<c>>])

reDouble_Open(specRegex) ==
    <<"\\", "b">> \o REQUIRE \o <<"\\", "(", "\"">> \o specRegex

\* `\\brequire\\("${specRegex}"\\)`
reDouble(specRegex) ==
    <<"\\", "b">> \o REQUIRE \o <<"\\", "(", "\"">> \o specRegex
        \o <<"\"", "\\", ")">>

\* `\\brequire\\('${specRegex}'\\)`
reSingle(specRegex) ==
    <<"\\", "b">> \o REQUIRE \o <<"\\", "(", "'">> \o specRegex
        \o <<"'", "\\", ")">>

\* `__dctc_require("${idQuoted}")`
LoaderCallText(idQuoted) ==
    DCTC_REQUIRE \o <<"(", "\"">> \o idQuoted \o <<"\"", ")">>

RECURSIVE rewriteLocalRequires(_, _)
\* requireMap is the sequence of its entries [spec, id] in insertion order
rewriteLocalRequires(transformedCode, requireMap) ==
    IF requireMap = <<>> THEN transformedCode
    ELSE LET spec      == Head(requireMap).spec
             specRegex == escapeForRegex(spec)
             idQuoted  == escapeForJsString(Head(requireMap).id)
             code1     == ReplaceAll(transformedCode, reDouble(specRegex),
                                     LoaderCallText(idQuoted))
             code2     == ReplaceAll(code1, reSingle(specRegex),
                                     LoaderCallText(idQuoted))
         IN  rewriteLocalRequires(code2, Tail(requireMap))

-----------------------------------------------------------------------------
(* complie_swc.js: the steps of loadModule                                 *)

RECURSIVE IndexOf(_, _, _)
\* the smallest i >= from with s[i] = c, or 0
IndexOf(s, c, from) ==
    IF from > Len(s) THEN 0
    ELSE IF s[from] = c THEN from
    ELSE IndexOf(s, c, from + 1)

\* swc.parse on a call expression of the subset
SwcParseCall(s) ==
         LET k     == IndexOf(s, "(", 1)
             inner == SubSeq(s, k + 1, Len(s) - 1)
             isLit == /\ Len(inner) >= 2
                      /\ inner[1] \in {"\"", "'"}
                      /\ inner[Len(inner)] = inner[1]
         IN  IF isLit
             THEN Stmt(SubSeq(s, 1, k - 1), inner[1],
                       SubSeq(inner, 2, Len(inner) - 1))
             ELSE [type |-> "call", lit |-> FALSE,
                   callee |-> SubSeq(s, 1, k - 1), quote |-> "", spec |-> inner]

\* swc.parse on one statement of the subset
SwcParseStmt(s) ==
    IF StartsWith(s, <<"\"">>) THEN
        [type |-> "directive", lit |-> FALSE, callee |-> <<>>, quote |-> "",
         spec |-> s]
    ELSE IF StartsWith(s, MODULE_EXPORTS \o <<"=">>) THEN
        AssignStmt(SubSeq(s, Len(MODULE_EXPORTS) + 2, Len(s)))
    ELSE IF StartsWith(s, MODULE_EXPORTS \o <<" ", "=", " ">>) THEN
        AssignStmt(SubSeq(s, Len(MODULE_EXPORTS) + 4, Len(s)))
    ELSE IF StartsWith(s, TRY_OPEN) THEN
        [SwcParseCall(SubSeq(s, Len(TRY_OPEN) + 1, Len(s) - Len(TRY_CLOSE)))
            EXCEPT !.type = "try"]
    ELSE SwcParseCall(s)

\* swc.parse: the statement nodes of a text
SwcParse(source) ==
    LET texts == SplitSemi(source)
    IN  [i \in 1..Len(texts) |-> SwcParseStmt(texts[i])]

\* syntax nodes other than the statements SwcParse yields: an import
\* declaration, `export ... from` (hasSource) or `export { ... }`, `export *
\* from`, a call with no or several arguments, import(), and a node with
\* nested nodes (a block, a function body, an argument list ...)
ImportNode(source) == [type |-> "import", spec |-> source]

ExportNamedNode(hasSource, source) ==
    [type |-> "exportNamed", hasSource |-> hasSource, spec |-> source]

ExportAllNode(source) == [type |-> "exportAll", spec |-> source]

CallArgsNode(callee, args) ==
    [type |-> "callArgs", callee |-> callee, args |-> args]

DynamicImportNode(source) == [type |-> "dynamicImport", spec |-> source]

BlockNode(children) == [type |-> "block", children |-> children]

\* lines 176-204: the specifier the node itself contributes, if any
OwnSpecifier(node) ==
    CASE node.type \in {"import", "exportAll"} -> <<node.spec>>
      [] node.type = "exportNamed" ->
           IF node.hasSource THEN <<node.spec>> ELSE <<>>
      [] node.type \in {"call", "try"} ->   \* the call nested in a try too
           IF node.callee = REQUIRE /\ node.lit THEN <<node.spec>> ELSE <<>>
      [] OTHER -> <<>>

RECURSIVE collectFrom(_, _)
\* visit(): the node's own specifier, then the nodes nested in it; the set
\* `specs` keeps first occurrences only, in insertion order
collectFrom(ast, specs) ==
    IF ast = <<>> THEN specs
    ELSE LET node == Head(ast)
             own  == OwnSpecifier(node)
             s1   == IF own # <<>> /\ \A i \in 1..Len(specs) : specs[i] # own[1]
                     THEN Append(specs, own[1]) ELSE specs
             s2   == IF node.type = "block"
                     THEN collectFrom(node.children, s1) ELSE s1
         IN  collectFrom(Tail(ast), s2)

\* a visitor that does not descend into nested nodes
collectSpecifiersFromAst_TopLevel(ast) ==
    collectFrom([i \in 1..Len(ast) |->
                    IF ast[i].type = "block" THEN BlockNode(<<>>) ELSE ast[i]],
                <<>>)

collectSpecifiersFromAst(ast) == collectFrom(ast, <<>>)

RECURSIVE FilterSeq(_, _)
FilterSeq(s, keep) ==
    IF s = <<>> THEN <<>>
    ELSE (IF keep[Head(s)] THEN <<Head(s)>> ELSE <<>>) \o FilterSeq(Tail(s), keep)

\* line 240: collectSpecifiersFromAst(ast).filter(isLocalSpecifier)
LocalSpecifiersOf(ast) ==
    LET all == collectSpecifiersFromAst(ast)
    IN  FilterSeq(all, [s \in Chars(all) |-> isLocalSpecifier(JStr(s)) = JTrue])

\* an extractor that returns every collected specifier
parseForImports_Unfiltered(absPath, source) ==
    collectSpecifiersFromAst(SwcParse(source))

\* lines 226-241: the collected specifiers, filtered by isLocalSpecifier
parseForImports(absPath, source) ==
    LocalSpecifiersOf(SwcParse(source))

\* swc.transform with module type commonjs and strictMode: the text of a
\* CommonJS module with the "use strict" directive in front; call sites of
\* require are kept as written
transformToCjs(absPath, source) == USE_STRICT \o <<";">> \o source

IMPORT_META_URL_RE ==
    <<"i", "m", "p", "o", "r", "t", "\\", ".", "m", "e", "t", "a", "\\", ".",
      "u", "r", "l">>

IMPORT_META_URL_CJS ==
    REQUIRE \o <<"(", "\"", "u", "r", "l", "\"", ")", ".", "p", "a", "t", "h",
      "T", "o", "F", "i", "l", "e", "U", "R", "L", "(", "_", "_", "f", "i", "l",
      "e", "n", "a", "m", "e", ")", ".", "h", "r", "e", "f">>

patchImportMetaUrl(source) ==
    ReplaceAll(source, IMPORT_META_URL_RE, IMPORT_META_URL_CJS)

normalizeId(p) == PathNormalizeAbs(p)

\* the resolved path, or NULL where the code throws "Cannot resolve import"
resolveLocal(fromFile, spec) ==
    LET baseDir == PathDirname(fromFile)
        abs     == IF StartsWith(spec, <<"/">>) THEN PathNormalizeAbs(spec)
                   ELSE PathResolve(baseDir, spec)
    IN  resolveWithExt(abs)

\* fs.promises.readFile(absPath, "utf8")
ReadFile(absPath) == fsSrc[absPath]

PROTO == <<"_", "_", "p", "r", "o", "t", "o", "_", "_">>

Digits == <<"0", "1", "2", "3", "4", "5", "6", "7", "8", "9">>

DigitValue(c) == (CHOOSE d \in 1..10 : Digits[d] = c) - 1

RECURSIVE DigitsValue(_, _)
\* the number a run of decimal digits denotes, after the value acc
DigitsValue(s, acc) ==
    IF s = <<>> THEN acc
    ELSE DigitsValue(Tail(s), 10 * acc + DigitValue(Head(s)))

RECURSIVE Power10(_)
Power10(e) == IF e = 0 THEN 1 ELSE 10 * Power10(e - 1)

\* the largest decimal exponent of a finite double
MaxDoubleExp10 == 308

\* the Number an integer literal with an optional exponent denotes:
\* -?digits(e digits)?; beyond the range of a double it is Infinity
NumberValue(tok) ==
    LET neg  == tok[1] = "-"
        body == IF neg THEN Tail(tok) ELSE tok
        e    == IndexOf(body, "e", 1)
        mant == DigitsValue(IF e = 0 THEN body ELSE SubSeq(body, 1, e - 1), 0)
        ex   == IF e = 0 THEN 0 ELSE DigitsValue(SubSeq(body, e + 1, Len(body)), 0)
    IN  IF mant # 0 /\ ex > MaxDoubleExp10 THEN JInfinity
        ELSE JNum((IF neg THEN -1 ELSE 1) * mant * Power10(ex))

RECURSIVE NumberToString(_)
\* Number::toString of an integer below 10^21
NumberToString(n) ==
    IF n < 0 THEN <<"-">> \o NumberToString(-n)
    ELSE IF n < 10 THEN <<Digits[n + 1]>>
    ELSE NumberToString(n \div 10) \o <<Digits[(n % 10) + 1]>>

RECURSIVE SkipWs(_, _)
SkipWs(s, i) ==
    IF i <= Len(s) /\ s[i] \in {" ", "\n", "\t"} THEN SkipWs(s, i + 1) ELSE i

RECURSIVE NumberEnd(_, _)
\* the first position from i on that is not part of a number literal
NumberEnd(s, i) ==
    IF i <= Len(s) /\ s[i] \in Chars(Digits) \cup {"-", "e"}
    THEN NumberEnd(s, i + 1) ELSE i

\* obj[k] = v on the members of an object: a key is kept where it was
\* created
MemberPut(items, k, v) ==
    IF \E m \in 1..Len(items) : items[m].k = k
    THEN [m \in 1..Len(items) |-> IF items[m].k = k THEN [k |-> k, v |-> v]
                                                     ELSE items[m]]
    ELSE Append(items, [k |-> k, v |-> v])

RECURSIVE ReadString(_, _, _)
\* the characters of a string literal from i on, up to the closing quote
ReadString(s, i, acc) ==
    IF s[i] = "\"" THEN [v |-> JStr(acc), i |-> i + 1]
    ELSE IF s[i] = "\\" THEN ReadString(s, i + 2, Append(acc, s[i + 1]))
    ELSE ReadString(s, i + 1, Append(acc, s[i]))

RECURSIVE ReadValue(_, _, _)
RECURSIVE ReadArray(_, _, _, _)
RECURSIVE ReadObject(_, _, _, _)

\* the value of the literal that starts at i, and the position after it.
\* The grammar is the one JSON and JavaScript share; they differ in the
\* member named __proto__, which JSON.parse creates as an own property and
\* which an object literal takes as the object's prototype, creating no
\* property (js = TRUE).
ReadValue(s, i, js) ==
    LET j == SkipWs(s, i)
    IN  CASE s[j] = "n" -> [v |-> JNull, i |-> j + 4]
          [] s[j] = "t" -> [v |-> JTrue, i |-> j + 4]
          [] s[j] = "f" -> [v |-> JFalse, i |-> j + 5]
          [] s[j] = "\"" -> ReadString(s, j + 1, <<>>)
          [] s[j] = "[" -> ReadArray(s, j + 1, <<>>, js)
          [] s[j] = "{" -> ReadObject(s, j + 1, <<>>, js)
          [] OTHER -> [v |-> NumberValue(SubSeq(s, j, NumberEnd(s, j) - 1)),
                       i |-> NumberEnd(s, j)]

ReadArray(s, i, acc, js) ==
    LET j == SkipWs(s, i)
    IN  IF s[j] = "]" THEN [v |-> JArr(acc), i |-> j + 1]
        ELSE IF s[j] = "," THEN ReadArray(s, j + 1, acc, js)
        ELSE LET r == ReadValue(s, j, js)
             IN  ReadArray(s, r.i, Append(acc, r.v), js)

ReadObject(s, i, acc, js) ==
    LET j == SkipWs(s, i)
    IN  IF s[j] = "}" THEN [v |-> JObj(acc), i |-> j + 1]
        ELSE IF s[j] = "," THEN ReadObject(s, j + 1, acc, js)
        ELSE LET key == ReadString(s, j + 1, <<>>)
                 r   == ReadValue(s, SkipWs(s, key.i) + 1, js)
             IN  ReadObject(s, r.i,
                            IF js /\ key.v.s = PROTO THEN acc
                            ELSE MemberPut(acc, key.v.s, r.v),
                            js)

\* JSON.parse(jsonText)
JSONParse(jsonText) == ReadValue(jsonText, 1, FALSE).v

\* QuoteJSONString
QuoteJSONString(s) ==
    <<"\"">> \o FlatMap(s, [c \in Chars(s) |->
                              IF c \in {"\"", "\\"} THEN <<"\\", c>> ELSE <<c>>])
    \o <<"\"">>

RECURSIVE JSONStringify(_)
RECURSIVE StringifyItems(_, _)

\* JSON.stringify(jsonValue): a number that is not finite is written null
JSONStringify(jsonValue) ==
    CASE jsonValue.t \in {"null", "inf"} -> <<"n", "u", "l", "l">>
      [] jsonValue.t = "true" -> <<"t", "r", "u", "e">>
      [] jsonValue.t = "false" -> <<"f", "a", "l", "s", "e">>
      [] jsonValue.t = "num" -> NumberToString(jsonValue.n)
      [] jsonValue.t = "str" -> QuoteJSONString(jsonValue.s)
      [] jsonValue.t = "arr" ->
            <<"[">> \o StringifyItems(jsonValue.items, FALSE) \o <<"]">>
      [] OTHER -> <<"{">> \o StringifyItems(jsonValue.items, TRUE) \o <<"}">>

StringifyItems(items, members) ==
    IF items = <<>> THEN <<>>
    ELSE (IF members
          THEN QuoteJSONString(Head(items).k) \o <<":">>
               \o JSONStringify(Head(items).v)
          ELSE JSONStringify(Head(items)))
         \o (IF Len(items) > 1 THEN <<",">> ELSE <<>>)
         \o StringifyItems(Tail(items), members)

\* `module.exports = ${JSON.stringify(jsonValue)};`
JsonModuleCode(jsonValue) ==
    MODULE_EXPORTS \o <<" ", "=", " ">> \o JSONStringify(jsonValue) \o <<";">>

\* obj[key] = value on a table kept as the sequence of its entries
TablePut(tbl, id, rec) ==
    IF \E k \in 1..Len(tbl) : tbl[k].id = id
    THEN [k \in 1..Len(tbl) |-> IF tbl[k].id = id THEN rec ELSE tbl[k]]
    ELSE Append(tbl, rec)

TableIds(tbl) == {tbl[k].id : k \in 1..Len(tbl)}

\* obj[key] = value on a table kept as a function
FnPut(f, k, v) == [x \in DOMAIN f \cup {k} |-> IF x = k THEN v ELSE f[x]]

Frame(absPath) ==
    [absPath |-> absPath, pc |-> "enter", source |-> <<>>, imports |-> <<>>,
     map |-> <<>>, i |-> 0, code |-> <<>>]

Top == stack[Len(stack)]

TopId == normalizeId(Top.absPath)

SetTop(f) == [stack EXCEPT ![Len(stack)] = f]

Pop == SubSeq(stack, 1, Len(stack) - 1)

Running == status = "running" /\ stack # <<>>

-----------------------------------------------------------------------------
(* Each specification below exercises one part of the program; the         *)
(* variables of the other parts stay at these values.                      *)

ResolveIdle == rBase = <<>> /\ rResult = NULL /\ rPc = "idle"

BuildIdle ==
    /\ stack = <<>> /\ modules = <<>> /\ requireMaps = <<>>
    /\ visiting = {} /\ visited = {}
    /\ status = "idle" /\ thrown = NoValue /\ outcome = NoValue
    /\ entryAbs = <<>> /\ entered = <<>> /\ steps = 0

\* the state of a build that is not the running one
BuildState(st, entry) ==
    [stack |-> <<>>, modules |-> <<>>, requireMaps |-> <<>>, visiting |-> {},
     visited |-> {}, status |-> st, thrown |-> NoValue, outcome |-> NoValue,
     entryAbs |-> entry, entered |-> <<>>, steps |-> 0]

\* the process runs one build only
SingleBuild ==
    proc = [cur |-> 1, resumedAt |-> 0, mixed |-> FALSE,
            parked |-> BuildState("none", <<>>)]

CallIdle == call = [pc |-> "idle", arg |-> JNull, result |-> JNull]

CliIdle ==
    cli = [pc |-> "idle", args |-> <<>>, i |-> 0, compiler |-> <<>>,
           filePath |-> NULL, backend |-> "", code |-> "", vm |-> "",
           exit |-> -1, out |-> <<>>]

JsonIdle ==
    jsonFile = [pc |-> "idle", text |-> <<>>, code |-> <<>>, exports |-> JNull]

RunIdle ==
    /\ rtState = "idle" /\ rtCache = <<>> /\ rtExports = <<>>
    /\ rtStack = <<>> /\ rtAlloc = 0 /\ rtTrace = <<>>

RewriteIdle == wStmts = <<>> /\ wMap = <<>> /\ wOut = <<>> /\ wPc = "idle"

-----------------------------------------------------------------------------
(* Resolver runs: one call of resolveWithExt on every file system that can *)
(* hold the candidates of one base path.                                   *)

BaseX == <<"/", "x">>

ExtCandidates(base) == {base \o LOCAL_EXTS[i] : i \in 1..Len(LOCAL_EXTS)}

IndexCandidates(base) ==
    {base \o <<"/">> \o INDEX \o LOCAL_EXTS[i] : i \in 1..Len(LOCAL_EXTS)}

InitResolve ==
    /\ fsSrc = <<>> /\ fsReq = <<>>
    /\ BuildIdle
    /\ RunIdle
    /\ CliIdle
    /\ CallIdle
    /\ JsonIdle
    /\ SingleBuild
    /\ rBase = BaseX
    /\ rResult = NULL
    /\ rPc = "call"
    /\ RewriteIdle
    /\ \E kind \in {"none", "file", "dir"} :
       \E exts \in SUBSET ExtCandidates(BaseX) :
       \E idx \in SUBSET IndexCandidates(BaseX) :
       \E tsDir \in BOOLEAN :
          /\ kind # "dir" => idx = {}
          /\ tsDir => (BaseX \o LOCAL_EXTS[1]) \notin exts
          /\ fsFiles = exts \cup idx \cup (IF kind = "file" THEN {BaseX} ELSE {})
          /\ fsDirs = {<<"/">>} \cup (IF kind = "dir" THEN {BaseX} ELSE {})
                        \cup (IF tsDir THEN {BaseX \o LOCAL_EXTS[1]} ELSE {})

ResolveCall ==
    /\ rPc = "call"
    /\ rResult' = resolveWithExt(rBase)
    /\ rPc' = "done"
    /\ UNCHANGED <<fsVars, rBase, rewriteVars, buildVars, runVars, proc, jsonFile, cli, call>>

NextResolve == ResolveCall

SpecResolve == InitResolve /\ [][NextResolve]_vars

-----------------------------------------------------------------------------
(* Rewriter runs: one call of rewriteLocalRequires on a module text made   *)
(* of up to MaxStmts call statements and a dependency map.                 *)

MaxStmts == 2

SpecMeta     == <<".", "/", "a", ".", "b", "+", "c">>
SpecLonger   == <<".", "/", "a", ".", "b", "+", "c", "d">>
SpecOps      == <<".", "/", "a", "X", "b", "b", "c">>
SpecContains == <<".", ".", "/", "a", ".", "b", "+", "c">>
SpecPlain    == <<".", "/", "k">>
SpecAbsent   == <<".", "/", "n">>
SpecExternal == <<"l", "e", "f", "t", "-", "p", "a", "d">>

IdMeta  == <<"/", "a", ".", "b", "+", "c", ".", "t", "s">>
IdPlain == <<"/", "k", ".", "t", "s">>

RewriteStmts ==
    {Stmt(REQUIRE, "\"", s) :
        s \in {SpecMeta, SpecLonger, SpecOps, SpecContains, SpecPlain,
               SpecAbsent, SpecExternal}}
    \cup {Stmt(REQUIRE, "'", SpecMeta), Stmt(<<"x">> \o REQUIRE, "\"", SpecMeta),
          DynStmt}

RewriteMaps ==
    { <<>>,
      <<[spec |-> SpecMeta, id |-> IdMeta]>>,
      <<[spec |-> SpecPlain, id |-> IdPlain], [spec |-> SpecMeta, id |-> IdMeta]>> }

InitRewrite ==
    /\ fsFiles = {} /\ fsDirs = {} /\ fsSrc = <<>> /\ fsReq = <<>>
    /\ ResolveIdle
    /\ BuildIdle
    /\ RunIdle
    /\ CliIdle
    /\ CallIdle
    /\ JsonIdle
    /\ SingleBuild
    /\ wStmts \in SeqsUpTo(RewriteStmts, MaxStmts)
    /\ wMap \in RewriteMaps
    /\ wOut = <<>>
    /\ wPc = "call"

RewriteCall ==
    /\ wPc = "call"
    /\ wOut' = rewriteLocalRequires(StmtsText(wStmts), wMap)
    /\ wPc' = "done"
    /\ UNCHANGED <<wStmts, wMap>>
    /\ UNCHANGED <<fsVars, resolveVars, buildVars, runVars, proc, jsonFile, cli, call>>

NextRewrite == RewriteCall

SpecRewrite == InitRewrite /\ [][NextRewrite]_vars

wOutStmts == SplitSemi(wOut)

MapKeys(m) == {m[i].spec : i \in 1..Len(m)}

MapGet(m, spec) == (CHOOSE i \in 1..Len(m) : m[i].spec = spec)

IsRequireOf(st, spec) ==
    st.type = "call" /\ st.lit /\ st.callee = REQUIRE /\ st.spec = spec

-----------------------------------------------------------------------------
(* C7: with './a.b+c' in the dependency map, every require("./a.b+c") and  *)
(* require('./a.b+c') becomes a loader call on the resolved id, and a call *)
(* whose specifier extends it ('./a.b+cd'), contains it ('../a.b+c') or    *)
(* matches it only as a regular expression ('./aXbbc') is left as written. *)

C7_MetaCallSites ==
    (wPc = "done" /\ SpecMeta \in MapKeys(wMap)) =>
        /\ Len(wOutStmts) = Len(wStmts)
        /\ \A i \in 1..Len(wStmts) :
              /\ IsRequireOf(wStmts[i], SpecMeta) =>
                    wOutStmts[i] = <<"_", "_", "d", "c", "t", "c", "_", "r", "e",
                                     "q", "u", "i", "r", "e", "(", "\"">>
                                   \o IdMeta \o <<"\"", ")">>
              /\ (wStmts[i].lit /\ wStmts[i].spec \in
                     {SpecLonger, SpecContains, SpecOps}) =>
                    wOutStmts[i] = StmtText(wStmts[i])

\* a text with both an exact call site and a regex-only near miss was rewritten
C7_Witness ==
    /\ wPc = "done"
    /\ SpecMeta \in MapKeys(wMap)
    /\ \E i, j \in 1..Len(wStmts) :
          /\ IsRequireOf(wStmts[i], SpecMeta)
          /\ wStmts[j].spec = SpecOps
    /\ wOut # StmtsText(wStmts)

-----------------------------------------------------------------------------
(* C8: a statement that is not a call of require on a literal specifier    *)
(* that is a key of the dependency map (a call on an external specifier,   *)
(* on a local specifier absent from the map, with a non-literal argument)  *)
(* is in the returned text exactly as written.                             *)

C8_OthersVerbatim ==
    wPc = "done" =>
        /\ Len(wOutStmts) = Len(wStmts)
        /\ \A i \in 1..Len(wStmts) :
              (~ \E k \in MapKeys(wMap) : IsRequireOf(wStmts[i], k)) =>
                    wOutStmts[i] = StmtText(wStmts[i])

\* an external call stands next to a call that was rewritten
C8_Witness ==
    /\ wPc = "done"
    /\ Len(wStmts) = 2
    /\ wStmts[1].spec = SpecExternal
    /\ IsRequireOf(wStmts[2], SpecPlain)
    /\ SpecPlain \in MapKeys(wMap)
    /\ wOutStmts[1] = StmtText(wStmts[1])
    /\ wOutStmts[2] # StmtText(wStmts[2])

-----------------------------------------------------------------------------
(* Builds: one call of complie_swc on a project of three source files and  *)
(* one JSON file; the source files hold up to MaxRequires require calls    *)
(* between them.                                                           *)

MaxRequires == 3

\* no activation of loadModule is ever deeper than the number of files;
\* the bound only keeps a broken cycle guard from recursing for ever
MaxDepth == 6

FileA == <<"/", "a", ".", "t", "s">>
FileB == <<"/", "b", ".", "t", "s">>
FileC == <<"/", "c", ".", "t", "s">>
FileD == <<"/", "d", ".", "j", "s", "o", "n">>
FileE == <<"/", "e", "$", "$", ".", "t", "s">>

\* a source file in the directory s
FileS == <<"/", "s", "/", "x", ".", "t", "s">>

SourceFiles == {FileA, FileB, FileC}
ProjectFiles == SourceFiles \cup {FileD, FileE, FileS}

SpecA == <<".", "/", "a">>
SpecB == <<".", "/", "b">>
SpecC == <<".", "/", "c">>
SpecD == <<".", "/", "d", ".", "j", "s", "o", "n">>
SpecE == <<".", "/", "e", "$", "$">>
SpecCts == <<".", "/", "c", ".", "t", "s">>
SpecMissing == <<".", "/", "z", "z">>

\* a directory without an index file, the specifier that denotes it, and
\* the specifier of the file in it
DirS == <<"/", "s">>
SpecDir == <<".", "/", "s">>
SpecS == <<".", "/", "s", "/", "x">>

\* another way to write ./b: through the directory s and back
SpecBUp == <<".", "/", "s", "/", ".", ".", "/", "b">>

\* ./e$$ written with its extension
SpecEts == <<".", "/", "e", "$", "$", ".", "t", "s">>

BuildSpecifiers ==
    {SpecA, SpecB, SpecC, SpecCts, SpecD, SpecMissing, SpecDir, SpecExternal}

JsonTextD == <<"{", "\"", "v", "\"", ":", " ", "1", "}">>

\* what a source file can require: up to n different specifiers
RequireLists(n) ==
    {r \in SeqsUpTo(BuildSpecifiers, n) :
        \A i, j \in 1..Len(r) : i # j => r[i] # r[j]}

\* the statements of a source file that requires the specifiers of r, in order
RequireStmts(r) == [i \in 1..Len(r) |-> Stmt(REQUIRE, "\"", r[i])]

\* the specifiers a source file with these statements requires
RequiredBy(stmts) ==
    LET calls == FilterSeq(stmts, [st \in Chars(stmts) |->
                                     st.type \in {"call", "try"}
                                        /\ st.callee = REQUIRE])
    IN  [i \in 1..Len(calls) |-> calls[i].spec]

\* a build starts on the project whose source files a, b and c hold the
\* statements sa, sb and sc; d.json, the empty e$$.ts and the directory s
\* with the empty s/x.ts and no index file are fixed
BuildStarts(sa, sb, sc) ==
    LET body == [f \in ProjectFiles |->
                   CASE f = FileA -> sa
                     [] f = FileB -> sb
                     [] f = FileC -> sc
                     [] OTHER -> <<>>]
    IN  /\ fsReq = [f \in ProjectFiles |-> RequiredBy(body[f])]
        /\ fsSrc = [f \in ProjectFiles |->
                      IF f = FileD THEN JsonTextD ELSE StmtsText(body[f])]
        /\ fsFiles = ProjectFiles
        /\ fsDirs = {<<"/">>, DirS}
        /\ entryAbs = FileA
        /\ stack = <<Frame(FileA)>>
        /\ modules = <<>>
        /\ requireMaps = <<>>
        /\ visiting = {}
        /\ visited = {}
        /\ status = "running"
        /\ thrown = NoValue
        /\ outcome = NoValue
        /\ entered = [f \in ProjectFiles |-> 0]
        /\ steps = 0

InitBuild ==
    /\ ResolveIdle
    /\ RewriteIdle
    /\ RunIdle
    /\ CliIdle
    /\ CallIdle
    /\ JsonIdle
    /\ SingleBuild
    /\ \E ra \in RequireLists(MaxRequires) :
       \E rb \in RequireLists(MaxRequires - Len(ra)) :
       \E rc \in RequireLists(MaxRequires - Len(ra) - Len(rb)) :
          BuildStarts(RequireStmts(ra), RequireStmts(rb), RequireStmts(rc))

otherThanBuild == <<fsVars, resolveVars, rewriteVars, runVars, proc, jsonFile, cli, call>>

Tick == steps' = steps + 1

\* a throw inside the try block: control goes to the catch clause
Throw(kind, at) ==
    /\ thrown' = [kind |-> kind, at |-> at]
    /\ status' = "catch"
    /\ stack' = <<>>

\* loadModule without the guard on `visited`
LoadEnter_NoVisitedGuard ==
    /\ Running /\ Top.pc = "enter"
    /\ IF TopId \in visiting
       THEN /\ stack' = Pop
            /\ UNCHANGED <<visiting, entered>>
       ELSE /\ visiting' = visiting \cup {TopId}
            /\ entered' = [entered EXCEPT ![TopId] = @ + 1]
            /\ stack' = SetTop([Top EXCEPT !.pc =
                  IF ToLowerCase(PathExtname(Top.absPath))
                        = <<".", "j", "s", "o", "n">>
                  THEN "readJson" ELSE "read"])
    /\ UNCHANGED <<modules, requireMaps, visited, status, thrown, outcome,
                   entryAbs>>
    /\ Tick
    /\ UNCHANGED otherThanBuild

\* loadModule without the guard on `visiting`
LoadEnter_NoCycleGuard ==
    /\ Running /\ Top.pc = "enter"
    /\ IF TopId \in visited
       THEN /\ stack' = Pop
            /\ UNCHANGED <<visiting, entered>>
       ELSE /\ visiting' = visiting \cup {TopId}
            /\ entered' = [entered EXCEPT ![TopId] = @ + 1]
            /\ stack' = SetTop([Top EXCEPT !.pc =
                  IF ToLowerCase(PathExtname(Top.absPath))
                        = <<".", "j", "s", "o", "n">>
                  THEN "readJson" ELSE "read"])
    /\ UNCHANGED <<modules, requireMaps, visited, status, thrown, outcome,
                   entryAbs>>
    /\ Tick
    /\ UNCHANGED otherThanBuild

\* loadModule whose guard on `visiting` also abandons the importing module
LoadEnter_CycleDropsImporter ==
    /\ Running /\ Top.pc = "enter"
    /\ IF TopId \in visited
       THEN /\ stack' = Pop
            /\ UNCHANGED <<visiting, entered>>
       ELSE IF TopId \in visiting
       THEN /\ stack' = SubSeq(stack, 1, Len(stack) - 2)
            /\ UNCHANGED <<visiting, entered>>
       ELSE /\ visiting' = visiting \cup {TopId}
            /\ entered' = [entered EXCEPT ![TopId] = @ + 1]
            /\ stack' = SetTop([Top EXCEPT !.pc =
                  IF ToLowerCase(PathExtname(Top.absPath))
                        = <<".", "j", "s", "o", "n">>
                  THEN "readJson" ELSE "read"])
    /\ UNCHANGED <<modules, requireMaps, visited, status, thrown, outcome,
                   entryAbs>>
    /\ Tick
    /\ UNCHANGED otherThanBuild

\* loadModule without its branch for JSON files
LoadEnter_NoJsonBranch ==
    /\ Running /\ Top.pc = "enter"
    /\ IF TopId \in visited \/ TopId \in visiting
       THEN /\ stack' = Pop
            /\ UNCHANGED <<visiting, entered>>
       ELSE /\ visiting' = visiting \cup {TopId}
            /\ entered' = [entered EXCEPT ![TopId] = @ + 1]
            /\ stack' = SetTop([Top EXCEPT !.pc = "read"])
    /\ UNCHANGED <<modules, requireMaps, visited, status, thrown, outcome,
                   entryAbs>>
    /\ Tick
    /\ UNCHANGED otherThanBuild

\* loadModule guarded by the table alone: `if (modules[id]) return;`
LoadEnter_TableGuard ==
    /\ Running /\ Top.pc = "enter"
    /\ IF TopId \in TableIds(modules)
       THEN /\ stack' = Pop
            /\ UNCHANGED <<visiting, entered>>
       ELSE /\ visiting' = visiting \cup {TopId}
            /\ entered' = [entered EXCEPT ![TopId] = @ + 1]
            /\ stack' = SetTop([Top EXCEPT !.pc =
                  IF ToLowerCase(PathExtname(Top.absPath))
                        = <<".", "j", "s", "o", "n">>
                  THEN "readJson" ELSE "read"])
    /\ UNCHANGED <<modules, requireMaps, visited, status, thrown, outcome,
                   entryAbs>>
    /\ Tick
    /\ UNCHANGED otherThanBuild

\* lines 401-406: the two guards, visiting.add, the choice of the branch
LoadEnter ==
    /\ Running /\ Top.pc = "enter"
    /\ IF TopId \in visited \/ TopId \in visiting
       THEN /\ stack' = Pop
            /\ UNCHANGED <<visiting, entered>>
       ELSE /\ visiting' = visiting \cup {TopId}
            /\ entered' = [entered EXCEPT ![TopId] = @ + 1]
            /\ stack' = SetTop([Top EXCEPT !.pc =
                  IF ToLowerCase(PathExtname(Top.absPath))
                        = <<".", "j", "s", "o", "n">>
                  THEN "readJson" ELSE "read"])
    /\ UNCHANGED <<modules, requireMaps, visited, status, thrown, outcome,
                   entryAbs>>
    /\ Tick
    /\ UNCHANGED otherThanBuild

\* lines 408-409: the JSON text is read and parsed
ReadJson ==
    /\ Running /\ Top.pc = "readJson"
    /\ stack' = SetTop([Top EXCEPT !.pc = "storeJson",
                                   !.code = JsonModuleCode(JSONParse(ReadFile(Top.absPath)))])
    /\ UNCHANGED <<modules, requireMaps, visiting, visited, status, thrown,
                   outcome, entryAbs, entered>>
    /\ Tick
    /\ UNCHANGED otherThanBuild

\* lines 410-415: the JSON record and its empty dependency map are stored
StoreJson ==
    /\ Running /\ Top.pc = "storeJson"
    /\ modules' = TablePut(modules, TopId,
                     [id |-> TopId, filename |-> Top.absPath,
                      dirname |-> PathDirname(Top.absPath), code |-> Top.code])
    /\ requireMaps' = FnPut(requireMaps, TopId, <<>>)
    /\ stack' = SetTop([Top EXCEPT !.pc = "markVisited"])
    /\ UNCHANGED <<visiting, visited, status, thrown, outcome, entryAbs, entered>>
    /\ Tick
    /\ UNCHANGED otherThanBuild

\* lines 421-422: the source is read and import.meta.url is patched
ReadSource ==
    /\ Running /\ Top.pc = "read"
    /\ stack' = SetTop([Top EXCEPT !.pc = "parse",
                                   !.source = patchImportMetaUrl(ReadFile(Top.absPath))])
    /\ UNCHANGED <<modules, requireMaps, visiting, visited, status, thrown,
                   outcome, entryAbs, entered>>
    /\ Tick
    /\ UNCHANGED otherThanBuild

\* line 424: the local specifiers are extracted
Parse ==
    /\ Running /\ Top.pc = "parse"
    /\ stack' = SetTop([Top EXCEPT !.pc = "map",
                                   !.imports = parseForImports(Top.absPath, Top.source)])
    /\ UNCHANGED <<modules, requireMaps, visiting, visited, status, thrown,
                   outcome, entryAbs, entered>>
    /\ Tick
    /\ UNCHANGED otherThanBuild

\* lines 425-431: every specifier is resolved and the map is recorded; the
\* first specifier that does not resolve throws
BuildMap ==
    /\ Running /\ Top.pc = "map"
    /\ LET bad == {i \in 1..Len(Top.imports) :
                      resolveLocal(Top.absPath, Top.imports[i]) = NULL}
           map == [i \in 1..Len(Top.imports) |->
                      [spec |-> Top.imports[i],
                       id |-> normalizeId(resolveLocal(Top.absPath, Top.imports[i]))]]
       IN  IF bad # {}
           THEN /\ Throw("resolve", <<Top.imports[CHOOSE i \in bad :
                                         \A j \in bad : i <= j], Top.absPath>>)
                /\ UNCHANGED requireMaps
           ELSE /\ requireMaps' = FnPut(requireMaps, TopId, map)
                /\ stack' = SetTop([Top EXCEPT !.pc = "deps", !.map = map, !.i = 1])
                /\ UNCHANGED <<status, thrown>>
    /\ UNCHANGED <<modules, visiting, visited, outcome, entryAbs, entered>>
    /\ Tick
    /\ UNCHANGED otherThanBuild

\* a fan-out: the loads of all remaining dependencies are started at once
LoadDep_FanOut ==
    /\ Running /\ Top.pc = "deps" /\ Top.i <= Len(Top.imports)
    /\ Len(stack) < MaxDepth
    /\ stack' = SetTop([Top EXCEPT !.i = Len(Top.imports) + 1]) \o
                 [k \in 1..(Len(Top.imports) - Top.i + 1) |->
                     Frame(resolveLocal(Top.absPath, Top.imports[Top.i + k - 1]))]
    /\ UNCHANGED <<modules, requireMaps, visiting, visited, status, thrown,
                   outcome, entryAbs, entered>>
    /\ Tick
    /\ UNCHANGED otherThanBuild

\* a loop that loads the first dependency only
LoadDep_OnlyFirst ==
    /\ Running /\ Top.pc = "deps" /\ Top.i <= Len(Top.imports)
    /\ Len(stack) < MaxDepth
    /\ stack' = Append(SetTop([Top EXCEPT !.i = Len(Top.imports) + 1]),
                       Frame(resolveLocal(Top.absPath, Top.imports[Top.i])))
    /\ UNCHANGED <<modules, requireMaps, visiting, visited, status, thrown,
                   outcome, entryAbs, entered>>
    /\ Tick
    /\ UNCHANGED otherThanBuild

\* a loop that may pass over dependencies: any of the remaining ones is next
LoadDep_AnyNext ==
    /\ Running /\ Top.pc = "deps" /\ Top.i <= Len(Top.imports)
    /\ Len(stack) < MaxDepth
    /\ \E j \in Top.i..Len(Top.imports) :
          stack' = Append(SetTop([Top EXCEPT !.i = j + 1]),
                          Frame(resolveLocal(Top.absPath, Top.imports[j])))
    /\ UNCHANGED <<modules, requireMaps, visiting, visited, status, thrown,
                   outcome, entryAbs, entered>>
    /\ Tick
    /\ UNCHANGED otherThanBuild

\* lines 434-436: loadModule is called on the next dependency
LoadDep ==
    /\ Running /\ Top.pc = "deps" /\ Top.i <= Len(Top.imports)
    /\ Len(stack) < MaxDepth
    /\ stack' = Append(SetTop([Top EXCEPT !.i = @ + 1]),
                       Frame(resolveLocal(Top.absPath, Top.imports[Top.i])))
    /\ UNCHANGED <<modules, requireMaps, visiting, visited, status, thrown,
                   outcome, entryAbs, entered>>
    /\ Tick
    /\ UNCHANGED otherThanBuild

\* a module that may be transformed before its dependencies are all loaded
Transform_BeforeDeps ==
    /\ Running /\ Top.pc = "deps"
    /\ stack' = SetTop([Top EXCEPT !.pc = "store",
          !.code = rewriteLocalRequires(transformToCjs(Top.absPath, Top.source),
                                        Top.map)])
    /\ UNCHANGED <<modules, requireMaps, visiting, visited, status, thrown,
                   outcome, entryAbs, entered>>
    /\ Tick
    /\ UNCHANGED otherThanBuild

\* lines 438-439: the module is transformed and its local requires rewritten
Transform ==
    /\ Running /\ Top.pc = "deps" /\ Top.i > Len(Top.imports)
    /\ stack' = SetTop([Top EXCEPT !.pc = "store",
          !.code = rewriteLocalRequires(transformToCjs(Top.absPath, Top.source),
                                        Top.map)])
    /\ UNCHANGED <<modules, requireMaps, visiting, visited, status, thrown,
                   outcome, entryAbs, entered>>
    /\ Tick
    /\ UNCHANGED otherThanBuild

\* lines 441-445: the record is stored
Store ==
    /\ Running /\ Top.pc = "store"
    /\ modules' = TablePut(modules, TopId,
                     [id |-> TopId, filename |-> Top.absPath,
                      dirname |-> PathDirname(Top.absPath), code |-> Top.code])
    /\ stack' = SetTop([Top EXCEPT !.pc = "markVisited"])
    /\ UNCHANGED <<requireMaps, visiting, visited, status, thrown, outcome,
                   entryAbs, entered>>
    /\ Tick
    /\ UNCHANGED otherThanBuild

\* a loadModule that does not record the module as visited
MarkVisited_Forgets ==
    /\ Running /\ Top.pc = "markVisited"
    /\ stack' = SetTop([Top EXCEPT !.pc = "unmarkVisiting"])
    /\ UNCHANGED <<modules, requireMaps, visiting, visited, status, thrown,
                   outcome, entryAbs, entered>>
    /\ Tick
    /\ UNCHANGED otherThanBuild

\* lines 416 and 447: visited.add(id)
MarkVisited ==
    /\ Running /\ Top.pc = "markVisited"
    /\ visited' = visited \cup {TopId}
    /\ stack' = SetTop([Top EXCEPT !.pc = "unmarkVisiting"])
    /\ UNCHANGED <<modules, requireMaps, visiting, status, thrown, outcome,
                   entryAbs, entered>>
    /\ Tick
    /\ UNCHANGED otherThanBuild

\* a return that leaves the id in `visiting`
UnmarkVisiting_Keeps ==
    /\ Running /\ Top.pc = "unmarkVisiting"
    /\ stack' = Pop
    /\ UNCHANGED <<modules, requireMaps, visiting, visited, status, thrown,
                   outcome, entryAbs, entered>>
    /\ Tick
    /\ UNCHANGED otherThanBuild

\* lines 417-418 and 448-449: visiting.delete(id), and loadModule returns
UnmarkVisiting ==
    /\ Running /\ Top.pc = "unmarkVisiting"
    /\ visiting' = visiting \ {TopId}
    /\ stack' = Pop
    /\ UNCHANGED <<modules, requireMaps, visited, status, thrown, outcome,
                   entryAbs, entered>>
    /\ Tick
    /\ UNCHANGED otherThanBuild

\* readFile, JSON.parse, swc.parse or swc.transform fails
StepFails ==
    /\ Running
    /\ Top.pc \in {"read", "readJson", "parse"}
          \/ (Top.pc = "deps" /\ Top.i > Len(Top.imports))
    /\ Throw(IF Top.pc = "deps" THEN "transform" ELSE Top.pc, Top.absPath)
    /\ UNCHANGED <<modules, requireMaps, visiting, visited, outcome, entryAbs,
                   entered>>
    /\ Tick
    /\ UNCHANGED otherThanBuild

\* a bundle whose trailing call targets the first key of the table
BundleOf_FirstKey(tbl, entry) ==
    [kind |-> "bundle",
     table |-> [k \in 1..Len(tbl) |->
                  [idStr |-> escapeForJsString(tbl[k].id),
                   filenameStr |-> escapeForJsString(tbl[k].filename),
                   dirnameStr |-> escapeForJsString(tbl[k].dirname),
                   code |-> tbl[k].code]],
     entryId |-> escapeForJsString(tbl[1].id)]

\* lines 453-464: the table entries and the entry id as they are written
\* into the bundle text
BundleOf(tbl, entry) ==
    [kind |-> "bundle",
     table |-> [k \in 1..Len(tbl) |->
                  [idStr |-> escapeForJsString(tbl[k].id),
                   filenameStr |-> escapeForJsString(tbl[k].filename),
                   dirnameStr |-> escapeForJsString(tbl[k].dirname),
                   code |-> tbl[k].code]],
     entryId |-> escapeForJsString(normalizeId(entry))]

\* lines 451-484: loadModule(entryAbs) has returned; the bundle is returned
Emit ==
    /\ status = "running" /\ stack = <<>>
    /\ outcome' = BundleOf(modules, entryAbs)
    /\ status' = "resolved"
    /\ UNCHANGED <<stack, modules, requireMaps, visiting, visited, thrown,
                   entryAbs, entered>>
    /\ Tick
    /\ UNCHANGED otherThanBuild

\* a catch clause that logs the error and returns what was built so far
Catch_ReturnsPartial ==
    /\ status = "catch"
    /\ outcome' = BundleOf(modules, entryAbs)
    /\ status' = "resolved"
    /\ UNCHANGED <<stack, modules, requireMaps, visiting, visited, thrown,
                   entryAbs, entered>>
    /\ Tick
    /\ UNCHANGED otherThanBuild

\* lines 485-489: the catch clause logs the error and throws it again
Catch ==
    /\ status = "catch"
    /\ outcome' = thrown
    /\ status' = "rejected"
    /\ UNCHANGED <<stack, modules, requireMaps, visiting, visited, thrown,
                   entryAbs, entered>>
    /\ Tick
    /\ UNCHANGED otherThanBuild

NextBuild ==
    \/ LoadEnter \/ ReadJson \/ StoreJson \/ ReadSource \/ Parse \/ BuildMap
    \/ LoadDep \/ Transform \/ Store \/ MarkVisited \/ UnmarkVisiting
    \/ StepFails \/ Emit \/ Catch

SpecBuild == InitBuild /\ [][NextBuild]_vars

-----------------------------------------------------------------------------
(* The project as its author sees it: which file each specifier of the     *)
(* fixture denotes, and the local dependency graph that follows.           *)

DenotedFile(spec) ==
    CASE spec = <<".", "/", "a">> -> <<"/", "a", ".", "t", "s">>
      [] spec = <<".", "/", "b">> -> <<"/", "b", ".", "t", "s">>
      [] spec = <<".", "/", "c">> -> <<"/", "c", ".", "t", "s">>
      [] spec = <<".", "/", "c", ".", "t", "s">> -> <<"/", "c", ".", "t", "s">>
      [] spec = <<".", "/", "d", ".", "j", "s", "o", "n">>
            -> <<"/", "d", ".", "j", "s", "o", "n">>
      [] spec = <<".", "/", "e", "$", "$">> -> <<"/", "e", "$", "$", ".", "t", "s">>
      [] spec = <<".", "/", "s", "/", "x">> -> <<"/", "s", "/", "x", ".", "t", "s">>
      [] spec = <<".", "/", "s", "/", ".", ".", "/", "b">>
            -> <<"/", "b", ".", "t", "s">>
      [] spec = <<".", "/", "e", "$", "$", ".", "t", "s">>
            -> <<"/", "e", "$", "$", ".", "t", "s">>
      [] OTHER -> NULL

\* the files f requires through local specifiers
LocalDeps(f) ==
    {DenotedFile(fsReq[f][i]) : i \in 1..Len(fsReq[f])} \ {NULL}

RECURSIVE ReachFrom(_, _)
\* the files reachable from the set S by zero or more local requires
ReachFrom(S, n) ==
    IF n = 0 THEN S
    ELSE ReachFrom(S \cup UNION {LocalDeps(f) : f \in S}, n - 1)

Reachable(f) == ReachFrom({f}, Cardinality(DOMAIN fsReq))

\* f requires itself, directly or through other files
OnCycle(f) ==
    f \in ReachFrom(LocalDeps(f), Cardinality(DOMAIN fsReq))

\* the string a double-quoted JavaScript literal with this content denotes
RECURSIVE JsLiteralValue(_)
JsLiteralValue(s) ==
    IF s = <<>> THEN <<>>
    ELSE IF Head(s) = "\\" /\ Len(s) >= 2
         THEN <<s[2]>> \o JsLiteralValue(SubSeq(s, 3, Len(s)))
    ELSE <<Head(s)>> \o JsLiteralValue(Tail(s))

\* the keys of the emitted table, in the order of the bundle text
EmittedIds ==
    [k \in 1..Len(outcome.table) |-> JsLiteralValue(outcome.table[k].idStr)]

Occurrences(seq, x) == Cardinality({k \in 1..Len(seq) : seq[k] = x})

-----------------------------------------------------------------------------
(* C1: after a successful build of an entry whose local dependency graph   *)
(* is acyclic, the emitted table has exactly one record for every module   *)
(* reachable from the entry and no record for any other module.            *)

C1_AcyclicTableExact ==
    (status = "resolved" /\ \A f \in Reachable(entryAbs) : ~OnCycle(f)) =>
        /\ \A f \in Reachable(entryAbs) : Occurrences(EmittedIds, f) = 1
        /\ \A k \in 1..Len(EmittedIds) : EmittedIds[k] \in Reachable(entryAbs)

\* a diamond: a requires b and c, b requires c too, and the build is done
C1_Witness ==
    /\ status = "resolved"
    /\ LocalDeps(FileA) = {FileB, FileC}
    /\ LocalDeps(FileB) = {FileC}
    /\ LocalDeps(FileC) = {}
    /\ Len(EmittedIds) = 3

-----------------------------------------------------------------------------
(* C2: whatever the local dependency graph (cycles and self-imports        *)
(* included), loadModule passes its two guards at most once for every      *)
(* module id, no activation is nested deeper than there are files, and the *)
(* build ends: it takes no more than StepBound steps, it can always take   *)
(* a further step until it is resolved or rejected, and it is rejected     *)
(* only when a step has thrown.                                            *)

\* eight steps for every module body, two for every require (the call and,
\* when it is a repeated arrival, its return), one to emit or two to reject
StepBound ==
    LET F == DOMAIN fsReq
        RECURSIVE Sum(_)
        Sum(S) == IF S = {} THEN 0
                  ELSE LET f == CHOOSE x \in S : TRUE
                       IN  Len(fsReq[f]) + Sum(S \ {f})
    IN  8 * Cardinality(F) + 2 * Sum(F) + 2

\* some step of NextBuild can be taken
CanStep ==
    \/ status = "catch"
    \/ status = "running" /\ stack = <<>>
    \/ /\ Running
       /\ Top.pc \in {"enter", "readJson", "storeJson", "read", "parse", "map",
                      "deps", "store", "markVisited", "unmarkVisiting"}
       /\ (Top.pc = "deps" /\ Top.i <= Len(Top.imports)) => Len(stack) < MaxDepth

C2_EntersOnceAndEnds ==
    /\ \A f \in DOMAIN entered : entered[f] <= 1
    /\ Len(stack) <= Cardinality(DOMAIN fsReq) + 1
    /\ steps <= StepBound
    /\ status \in {"resolved", "rejected"} \/ CanStep
    /\ status = "rejected" => thrown # NoValue

\* a, b and c form a cycle of length three and the build is done
C2_Witness ==
    /\ status = "resolved"
    /\ LocalDeps(FileA) = {FileB}
    /\ LocalDeps(FileB) = {FileC}
    /\ LocalDeps(FileC) = {FileA}

-----------------------------------------------------------------------------
(* C3: after a successful build, every module that is reachable from the   *)
(* entry and lies on an import cycle has exactly one record in the table.  *)

C3_CycleModulesPresent ==
    status = "resolved" =>
        \A f \in Reachable(entryAbs) :
            OnCycle(f) => Occurrences(EmittedIds, f) = 1

\* a and b require each other, a is the entry, and the build is done
C3_Witness ==
    /\ status = "resolved"
    /\ FileB \in LocalDeps(FileA)
    /\ FileA \in LocalDeps(FileB)
    /\ {FileA, FileB} \subseteq {EmittedIds[k] : k \in 1..Len(EmittedIds)}

-----------------------------------------------------------------------------
(* C5: once a step of the build has thrown, the build never returns a      *)
(* bundle: it ends rejected, and the rejection value is the error thrown.  *)

C5_FailureAborts ==
    thrown # NoValue =>
        /\ status \in {"catch", "rejected"}
        /\ status = "catch" => outcome = NoValue
        /\ status = "rejected" => outcome = thrown

\* the transform of the entry failed after the records of two dependencies
\* had been stored, and the build was rejected
C5_Witness ==
    /\ status = "rejected"
    /\ thrown = [kind |-> "transform", at |-> FileA]
    /\ Len(modules) >= 2

-----------------------------------------------------------------------------
(* C6: resolveWithExt returns the first existing regular file in the fixed *)
(* order: the exact path; path+.ts, .tsx, .js, .jsx, .json; and, only if   *)
(* the path is a directory, path/index.ts, .tsx, .js, .jsx, .json.  It     *)
(* returns null when no candidate is a regular file.                       *)

C6_Order(base) ==
    LET ts   == <<".", "t", "s">>
        tsx  == <<".", "t", "s", "x">>
        js   == <<".", "j", "s">>
        jsx  == <<".", "j", "s", "x">>
        json == <<".", "j", "s", "o", "n">>
        ix   == base \o <<"/", "i", "n", "d", "e", "x">>
    IN  <<base, base \o ts, base \o tsx, base \o js, base \o jsx, base \o json>>
        \o (IF base \in fsDirs
            THEN <<ix \o ts, ix \o tsx, ix \o js, ix \o jsx, ix \o json>>
            ELSE <<>>)

C6_ResolveOrder ==
    rPc = "done" =>
        LET ord == C6_Order(rBase)
            hits == {i \in 1..Len(ord) : ord[i] \in fsFiles}
        IN  IF hits = {} THEN rResult = NULL
            ELSE \E i \in hits :
                    /\ rResult = ord[i]
                    /\ \A j \in hits : i <= j

\* x.ts and x.tsx both exist, so does the directory x with an index file,
\* and the call has returned x.ts
C6_Witness ==
    /\ rPc = "done"
    /\ {BaseX \o <<".", "t", "s">>, BaseX \o <<".", "t", "s", "x">>,
        BaseX \o <<"/", "i", "n", "d", "e", "x", ".", "j", "s">>} \subseteq fsFiles
    /\ BaseX \in fsDirs
    /\ rResult = BaseX \o <<".", "t", "s">>

-----------------------------------------------------------------------------
(* complie_swc.js lines 466-482: the emitted bundle at run time.           *)
(* Objects are named by the order of their creation; the trace records     *)
(* which bodies started, what every request returned and what was thrown.  *)

\* the host's call stack is finite: a deeper recursion throws RangeError
MaxCallDepth == 6

NoRef == [k |-> "none", n |-> 0, s |-> <<>>]
ObjRef(n) == [k |-> "obj", n |-> n, s |-> <<>>]
HostRef(name) == [k |-> "host", n |-> 0, s |-> name]

Event(e, from, id, v) == [e |-> e, from |-> from, id |-> id, v |-> v]

\* the packages the host can load; every other name makes its require throw
HostPackages == {SpecExternal}

\* property names every object literal inherits from Object.prototype
ObjectPrototypeKeys ==
    {<<"c", "o", "n", "s", "t", "r", "u", "c", "t", "o", "r">>,
     <<"t", "o", "S", "t", "r", "i", "n", "g">>,
     <<"v", "a", "l", "u", "e", "O", "f">>,
     <<"h", "a", "s", "O", "w", "n", "P", "r", "o", "p", "e", "r", "t", "y">>,
     <<"_", "_", "p", "r", "o", "t", "o", "_", "_">>}

\* lines 468-470: the own keys of the object literal __dctc_modules
TableKeys ==
    {JsLiteralValue(outcome.table[k].idStr) : k \in 1..Len(outcome.table)}

\* line 474: __dctc_modules[id], an own record (the last one written under
\* that key), else a value inherited from Object.prototype, else undefined
dctc_modules(id) ==
    IF id \in TableKeys THEN
        LET ks == {k \in 1..Len(outcome.table) :
                      JsLiteralValue(outcome.table[k].idStr) = id}
            k  == CHOOSE x \in ks : \A y \in ks : y <= x
        IN  [kind |-> "record",
             code |-> outcome.table[k].code,
             filename |-> JsLiteralValue(outcome.table[k].filenameStr),
             dirname |-> JsLiteralValue(outcome.table[k].dirnameStr)]
    ELSE IF id \in ObjectPrototypeKeys THEN
        [kind |-> "inherited", code |-> <<>>, filename |-> <<>>, dirname |-> <<>>]
    ELSE [kind |-> "undefined", code |-> <<>>, filename |-> <<>>, dirname |-> <<>>]

\* the statements of the function body of a record
BodyOf(id) == SwcParse(dctc_modules(id).code)

RtTop == rtStack[Len(rtStack)]

\* the caller of the innermost activation receives a value and goes on
Resume(stk) ==
    IF stk = <<>> THEN stk ELSE [stk EXCEPT ![Len(stk)].pc = @ + 1]

StateAfter(stk) == IF stk = <<>> THEN "done" ELSE "running"

\* the activations whose current statement is a try statement
Catchers ==
    {n \in 1..Len(rtStack) :
        /\ rtStack[n].pc <= Len(BodyOf(rtStack[n].id))
        /\ BodyOf(rtStack[n].id)[rtStack[n].pc].type = "try"}

\* an exception no body can catch
Throws_Uncatchable(error, from, id) ==
    /\ rtTrace' = Append(rtTrace, Event(error, from, id, NoRef))
    /\ rtStack' = <<>>
    /\ rtState' = "threw"

\* an exception thrown by the call the innermost activation is making: it
\* unwinds the activations down to the innermost one that makes its call
\* in a try statement, which goes on after it; when there is none it
\* unwinds them all and reaches execute (execute.js line 59)
Throws(error, from, id) ==
    /\ rtTrace' = Append(rtTrace, Event(error, from, id, NoRef))
    /\ IF Catchers = {}
       THEN /\ rtStack' = <<>>
            /\ rtState' = "threw"
       ELSE LET n == CHOOSE x \in Catchers : \A y \in Catchers : y <= x
            IN  /\ rtStack' = Resume(SubSeq(rtStack, 1, n))
                /\ rtState' = "running"

\* require(id) of the host, called on behalf of `from`
HostRequire(from, id) ==
    IF id \in HostPackages
    THEN /\ rtTrace' = Append(rtTrace, Event("host", from, id, HostRef(id)))
         /\ rtStack' = Resume(rtStack)
         /\ rtState' = StateAfter(rtStack)
    ELSE Throws("MODULE_NOT_FOUND", from, id)

\* a loader that ignores the cache entry of a module whose body is running
CacheHit_NotWhileRunning(id) ==
    /\ id \in DOMAIN rtCache
    /\ \A n \in 1..Len(rtStack) : rtStack[n].id # id

\* a loader that forgets a module whose body threw, as Node does
CacheHit_UnlessThrown(id) ==
    /\ id \in DOMAIN rtCache
    /\ \/ \E n \in 1..Len(rtStack) : rtStack[n].id = id
       \/ ~ \E k \in 1..Len(rtTrace) :
               /\ rtTrace[k].from = id
               /\ rtTrace[k].e \in {"MODULE_NOT_FOUND", "RangeError", "TypeError"}

\* a loader that never finds a module in its cache
CacheHit_Never(id) == FALSE

\* line 473: if (__dctc_cache[id])
CacheHit(id) == id \in DOMAIN rtCache

\* a loader that does not register the module object it creates
dctc_require_NoRegister(id, from) ==
    IF CacheHit(id) THEN
        /\ rtTrace' = Append(rtTrace,
                             Event("ret", from, id, rtExports[rtCache[id]]))
        /\ rtStack' = Resume(rtStack)
        /\ rtState' = StateAfter(rtStack)
        /\ UNCHANGED <<rtCache, rtExports, rtAlloc>>
    ELSE IF dctc_modules(id).kind = "undefined" THEN
        /\ HostRequire(from, id)
        /\ UNCHANGED <<rtCache, rtExports, rtAlloc>>
    ELSE LET record == dctc_modules(id)
             module == rtAlloc + 1
         IN  /\ rtAlloc' = rtAlloc + 2
             /\ rtExports' = (module :> ObjRef(rtAlloc + 2)) @@ rtExports
             /\ rtCache' = rtCache
             /\ IF record.kind = "record" /\ Len(rtStack) < MaxCallDepth
                THEN /\ rtStack' = Append(rtStack,
                                          [id |-> id, module |-> module,
                                           filename |-> record.filename,
                                           dirname |-> record.dirname,
                                           pc |-> 1])
                     /\ rtTrace' = Append(rtTrace, Event("exec", from, id, NoRef))
                     /\ rtState' = "running"
                ELSE IF record.kind = "record"
                THEN Throws("RangeError", from, id)
                ELSE Throws("TypeError", from, id)   \* record.fn is undefined

\* a loader that passes the directory of the requiring module to the body
dctc_require_CallerDirname(id, from) ==
    IF CacheHit(id) THEN
        /\ rtTrace' = Append(rtTrace,
                             Event("ret", from, id, rtExports[rtCache[id]]))
        /\ rtStack' = Resume(rtStack)
        /\ rtState' = StateAfter(rtStack)
        /\ UNCHANGED <<rtCache, rtExports, rtAlloc>>
    ELSE IF dctc_modules(id).kind = "undefined" THEN
        /\ HostRequire(from, id)
        /\ UNCHANGED <<rtCache, rtExports, rtAlloc>>
    ELSE LET record == dctc_modules(id)
             module == rtAlloc + 1
         IN  /\ rtAlloc' = rtAlloc + 2
             /\ rtExports' = (module :> ObjRef(rtAlloc + 2)) @@ rtExports
             /\ rtCache' = (id :> module) @@ rtCache
             /\ IF record.kind = "record" /\ Len(rtStack) < MaxCallDepth
                THEN /\ rtStack' = Append(rtStack,
                                          [id |-> id, module |-> module,
                                           filename |-> record.filename,
                                           dirname |->
                                              IF rtStack = <<>>
                                              THEN record.dirname
                                              ELSE RtTop.dirname,
                                           pc |-> 1])
                     /\ rtTrace' = Append(rtTrace, Event("exec", from, id, NoRef))
                     /\ rtState' = "running"
                ELSE IF record.kind = "record"
                THEN Throws("RangeError", from, id)
                ELSE Throws("TypeError", from, id)   \* record.fn is undefined

\* lines 472-480: __dctc_require(id), called by `from` (<<>> is the bundle's
\* own trailing call); a hit or a delegation answers at once, a miss creates
\* the module object, registers it and enters the body
dctc_require(id, from) ==
    IF CacheHit(id) THEN
        /\ rtTrace' = Append(rtTrace,
                             Event("ret", from, id, rtExports[rtCache[id]]))
        /\ rtStack' = Resume(rtStack)
        /\ rtState' = StateAfter(rtStack)
        /\ UNCHANGED <<rtCache, rtExports, rtAlloc>>
    ELSE IF dctc_modules(id).kind = "undefined" THEN
        /\ HostRequire(from, id)
        /\ UNCHANGED <<rtCache, rtExports, rtAlloc>>
    ELSE LET record == dctc_modules(id)
             module == rtAlloc + 1
         IN  /\ rtAlloc' = rtAlloc + 2
             /\ rtExports' = (module :> ObjRef(rtAlloc + 2)) @@ rtExports
             /\ rtCache' = (id :> module) @@ rtCache
             /\ IF record.kind = "record" /\ Len(rtStack) < MaxCallDepth
                THEN /\ rtStack' = Append(rtStack,
                                          [id |-> id, module |-> module,
                                           filename |-> record.filename,
                                           dirname |-> record.dirname,
                                           pc |-> 1])
                     /\ rtTrace' = Append(rtTrace, Event("exec", from, id, NoRef))
                     /\ rtState' = "running"
                ELSE IF record.kind = "record"
                THEN Throws("RangeError", from, id)
                ELSE Throws("TypeError", from, id)   \* record.fn is undefined

otherThanRun == <<fsVars, resolveVars, rewriteVars, buildVars, proc, jsonFile, cli, call>>

\* the statement the innermost body is about to execute
AtStmt(type) ==
    /\ rtState = "running"
    /\ RtTop.pc <= Len(BodyOf(RtTop.id))
    /\ BodyOf(RtTop.id)[RtTop.pc].type = type

CurStmt == BodyOf(RtTop.id)[RtTop.pc]

\* the innermost body is about to execute a call, in a try statement or not
AtCall == AtStmt("call") \/ AtStmt("try")

\* line 481: the bundle calls the loader for the entry id
RunEntry ==
    /\ status = "resolved" /\ rtState = "idle"
    /\ dctc_require(JsLiteralValue(outcome.entryId), <<>>)
    /\ UNCHANGED otherThanRun

\* a directive of the body
RunDirective ==
    /\ AtStmt("directive")
    /\ rtStack' = Resume(rtStack)
    /\ UNCHANGED <<rtState, rtCache, rtExports, rtAlloc, rtTrace>>
    /\ UNCHANGED otherThanRun

\* module.exports = <a new value>
RunAssign ==
    /\ AtStmt("assign")
    /\ rtAlloc' = rtAlloc + 1
    /\ rtExports' = [rtExports EXCEPT ![RtTop.module] = ObjRef(rtAlloc + 1)]
    /\ rtTrace' = Append(rtTrace,
                         Event("assign", RtTop.id, RtTop.id, ObjRef(rtAlloc + 1)))
    /\ rtStack' = Resume(rtStack)
    /\ UNCHANGED <<rtState, rtCache>>
    /\ UNCHANGED otherThanRun

\* a call of the third parameter of the body, the loader
RunLoaderCall ==
    /\ AtCall /\ CurStmt.callee = DCTC_REQUIRE /\ CurStmt.lit
    /\ dctc_require(JsLiteralValue(CurStmt.spec), RtTop.id)
    /\ UNCHANGED otherThanRun

\* a call of the fourth parameter of the body, the host require
RunHostRequire ==
    /\ AtCall /\ CurStmt.callee = REQUIRE /\ CurStmt.lit
    /\ HostRequire(RtTop.id, JsLiteralValue(CurStmt.spec))
    /\ UNCHANGED <<rtCache, rtExports, rtAlloc>>
    /\ UNCHANGED otherThanRun

\* a loader that deletes the record of a module once its body is over
RunReturn_DeletesRecord ==
    /\ rtState = "running"
    /\ RtTop.pc > Len(BodyOf(RtTop.id))
    /\ LET below == SubSeq(rtStack, 1, Len(rtStack) - 1)
           from  == IF below = <<>> THEN <<>> ELSE below[Len(below)].id
           kept  == {k \in 1..Len(outcome.table) :
                        JsLiteralValue(outcome.table[k].idStr) # RtTop.id}
       IN  /\ rtTrace' = Append(rtTrace, Event("ret", from, RtTop.id,
                                               rtExports[RtTop.module]))
           /\ rtStack' = Resume(below)
           /\ rtState' = StateAfter(below)
           /\ outcome' = [outcome EXCEPT !.table =
                             FilterSeq(@, [r \in Chars(@) |->
                                 JsLiteralValue(r.idStr) # RtTop.id])]
    /\ UNCHANGED <<rtCache, rtExports, rtAlloc>>
    /\ UNCHANGED <<stack, modules, requireMaps, visiting, visited, status,
                   thrown, entryAbs, entered, steps>>
    /\ UNCHANGED <<fsVars, resolveVars, rewriteVars, proc, jsonFile, cli, call>>

\* a loader that may return module.exports before the body is over
RunReturn_Early ==
    /\ rtState = "running"
    /\ LET below == SubSeq(rtStack, 1, Len(rtStack) - 1)
           from  == IF below = <<>> THEN <<>> ELSE below[Len(below)].id
       IN  /\ rtTrace' = Append(rtTrace, Event("ret", from, RtTop.id,
                                               rtExports[RtTop.module]))
           /\ rtStack' = Resume(below)
           /\ rtState' = StateAfter(below)
    /\ UNCHANGED <<rtCache, rtExports, rtAlloc>>
    /\ UNCHANGED otherThanRun

\* line 479: the body is over, the loader returns module.exports
RunReturn ==
    /\ rtState = "running"
    /\ RtTop.pc > Len(BodyOf(RtTop.id))
    /\ LET below == SubSeq(rtStack, 1, Len(rtStack) - 1)
           from  == IF below = <<>> THEN <<>> ELSE below[Len(below)].id
       IN  /\ rtTrace' = Append(rtTrace, Event("ret", from, RtTop.id,
                                               rtExports[RtTop.module]))
           /\ rtStack' = Resume(below)
           /\ rtState' = StateAfter(below)
    /\ UNCHANGED <<rtCache, rtExports, rtAlloc>>
    /\ UNCHANGED otherThanRun

NextRun ==
    \/ RunEntry
    \/ RunDirective
    \/ RunAssign
    \/ RunLoaderCall
    \/ RunHostRequire
    \/ RunReturn

-----------------------------------------------------------------------------
(* Bundle runs: a project is built and the emitted bundle is run.  The     *)
(* entry a.ts and b.ts hold up to MaxBodyStmts statements between them:    *)
(* requires of local files and of a package, an assignment to              *)
(* module.exports, and direct calls of the loader.                         *)

MaxBodyStmts == 3

IdConstructor == <<"c", "o", "n", "s", "t", "r", "u", "c", "t", "o", "r">>

BundleStatements ==
    {Stmt(REQUIRE, "\"", s) :
        s \in {SpecA, SpecB, SpecBUp, SpecD, SpecE, SpecEts, SpecS,
               SpecExternal}}
    \cup {AssignStmt(<<"1">>)}
    \cup {Stmt(DCTC_REQUIRE, "\"", s) : s \in {SpecExternal, IdConstructor}}

InitBundle ==
    /\ ResolveIdle
    /\ RewriteIdle
    /\ RunIdle
    /\ CliIdle
    /\ CallIdle
    /\ JsonIdle
    /\ SingleBuild
    /\ \E sa \in SeqsUpTo(BundleStatements, MaxBodyStmts) :
       \E sb \in SeqsUpTo(BundleStatements, MaxBodyStmts - Len(sa)) :
          BuildStarts(sa, sb, <<>>)

NextBundle == NextBuild \/ NextRun

SpecBundle == InitBundle /\ [][NextBundle]_vars

-----------------------------------------------------------------------------
(* Bundle runs with bodies that throw: a.ts and b.ts hold up to            *)
(* MaxTryStmts statements between them, among which a require of a package *)
(* the host does not have and requires made in a try statement.            *)

MaxTryStmts == 4

SpecNoPackage == <<"z", "z">>

TryStatements ==
    {Stmt(REQUIRE, "\"", s) : s \in {SpecB, SpecD, SpecNoPackage}}
    \cup {TryStmt(REQUIRE, "\"", s) : s \in {SpecB, SpecNoPackage}}
    \cup {AssignStmt(<<"1">>)}

InitTry ==
    /\ ResolveIdle
    /\ RewriteIdle
    /\ RunIdle
    /\ CliIdle
    /\ CallIdle
    /\ JsonIdle
    /\ SingleBuild
    /\ \E sa \in SeqsUpTo(TryStatements, MaxTryStmts) :
       \E sb \in SeqsUpTo(TryStatements, MaxTryStmts - Len(sa)) :
          BuildStarts(sa, sb, <<>>)

SpecTry == InitTry /\ [][NextBundle]_vars

-----------------------------------------------------------------------------
(* The same project run natively: a reference CommonJS loader over the     *)
(* source files, which caches a module before executing it and executes it *)
(* on first request.                                                       *)

NativeStart ==
    [cache |-> <<>>, exports |-> <<>>, alloc |-> 0, trace |-> <<>>, ok |-> TRUE]

NativeThrow(st, error, from, id) ==
    [st EXCEPT !.trace = Append(@, Event(error, from, id, NoRef)),
               !.ok = FALSE]

\* the statements the reference loader executes for a file
NativeStmts(f) ==
    IF PathExtname(f) = <<".", "j", "s", "o", "n">>
    THEN <<AssignStmt(fsSrc[f])>>
    ELSE SwcParse(fsSrc[f])

RECURSIVE NativeLoad(_, _, _)
RECURSIVE NativeBody(_, _, _, _)

NativeLoad(f, from, st) ==
    IF f \in DOMAIN st.cache THEN
        [st EXCEPT !.trace = Append(@, Event("ret", from, f,
                                             st.exports[st.cache[f]]))]
    ELSE LET m   == st.alloc + 1
             st1 == [cache   |-> (f :> m) @@ st.cache,
                     exports |-> (m :> ObjRef(st.alloc + 2)) @@ st.exports,
                     alloc   |-> st.alloc + 2,
                     trace   |-> Append(st.trace, Event("exec", from, f, NoRef)),
                     ok      |-> TRUE]
             st2 == NativeBody(f, m, NativeStmts(f), st1)
         IN  IF st2.ok
             THEN [st2 EXCEPT !.trace = Append(@, Event("ret", from, f,
                                                        st2.exports[m]))]
             ELSE st2

NativeBody(f, m, stmts, st) ==
    IF stmts = <<>> \/ ~st.ok THEN st
    ELSE LET s == Head(stmts)
             after ==
               IF s.type = "directive" THEN st
               ELSE IF s.type = "assign" THEN
                   [st EXCEPT !.alloc = @ + 1,
                              !.exports[m] = ObjRef(st.alloc + 1),
                              !.trace = Append(@, Event("assign", f, f,
                                                        ObjRef(st.alloc + 1)))]
               ELSE IF s.callee # REQUIRE \/ ~s.lit THEN
                   NativeThrow(st, "ReferenceError", f, s.spec)
               ELSE IF isLocalSpecifier(JStr(s.spec)) = JTrue THEN
                   IF DenotedFile(s.spec) = NULL
                   THEN NativeThrow(st, "MODULE_NOT_FOUND", f, s.spec)
                   ELSE NativeLoad(DenotedFile(s.spec), f, st)
               ELSE IF s.spec \in HostPackages THEN
                   [st EXCEPT !.trace = Append(@, Event("host", f, s.spec,
                                                        HostRef(s.spec)))]
               ELSE NativeThrow(st, "MODULE_NOT_FOUND", f, s.spec)
         IN  NativeBody(f, m, Tail(stmts), after)

\* what running the entry file natively does
NativeTrace == NativeLoad(entryAbs, <<>>, NativeStart).trace

\* no source file of the project calls the bundle's loader by name
NativeProgram ==
    \A f \in DOMAIN fsSrc :
        f \in fsFiles /\ PathExtname(f) # <<".", "j", "s", "o", "n">> =>
            \A st \in Chars(SwcParse(fsSrc[f])) :
                st.type = "call" => st.callee = REQUIRE

\* the run of the bundle is over
RunOver == rtState \in {"done", "threw"}

\* the positions of the trace at which a request for a table id was answered
Answers == {k \in 1..Len(rtTrace) :
               rtTrace[k].e = "ret" /\ rtTrace[k].id \in TableKeys}

\* the body of id assigned module.exports between positions i and j
AssignedBetween(id, i, j) ==
    \E k \in (i + 1)..(j - 1) : rtTrace[k].e = "assign" /\ rtTrace[k].id = id

-----------------------------------------------------------------------------
(* Claims about the bundle at run time                                     *)

\* C4 as stated: any two requests for the same table id return the identical
\* exports reference, whenever they are made and whatever the body does
\* with module.exports.
C4_SameIdSameExports ==
    \A i, j \in Answers :
        rtTrace[i].id = rtTrace[j].id => rtTrace[i].v = rtTrace[j].v

\* C4, amended: two requests for the same table id return the identical
\* exports reference when the body has not assigned module.exports between
\* the two returns, and every request returns the value the body assigned
\* last, if it assigned one.
C4_SameExportsUnlessReassigned ==
    /\ \A i, j \in Answers :
          /\ i < j
          /\ rtTrace[i].id = rtTrace[j].id
          /\ ~AssignedBetween(rtTrace[i].id, i, j)
          => rtTrace[i].v = rtTrace[j].v
    /\ \A j \in Answers :
          \A k \in 1..(j - 1) :
             /\ rtTrace[k].e = "assign"
             /\ rtTrace[k].id = rtTrace[j].id
             /\ ~AssignedBetween(rtTrace[j].id, k, j)
             => rtTrace[j].v = rtTrace[k].v

\* a module on a cycle was requested while its body ran and again after it
\* finished, and both requests returned the same container
C4_Witness ==
    /\ rtState = "done"
    /\ \E i, j \in Answers :
          /\ i < j
          /\ rtTrace[i].id = rtTrace[j].id
          /\ rtTrace[i].from # <<>> /\ rtTrace[i].from # rtTrace[i].id
          /\ rtTrace[j].from = <<>>
          /\ rtTrace[i].v = rtTrace[j].v

\* C9: a request for an id that is not a key of the table is delegated to
\* the host require, creates no cache entry and executes no body.
C9_AbsentIdDelegated ==
    status = "resolved" =>
        /\ \A id \in DOMAIN rtCache : id \in TableKeys
        /\ \A k \in 1..Len(rtTrace) :
              rtTrace[k].id \notin TableKeys =>
                  /\ rtTrace[k].e \in {"host", "MODULE_NOT_FOUND"}
                  /\ rtTrace[k].e = "host" => rtTrace[k].v = HostRef(rtTrace[k].id)

\* C10: the run of the bundle starts the same bodies in the same order and
\* gives every require call the same value as the reference CommonJS loader
\* running the entry file natively.
C10_SameAsNative ==
    RunOver /\ NativeProgram => rtTrace = NativeTrace

\* the file names of the project in which the rewriter's replacement text
\* holds no `$` pattern
DollarFree ==
    \A f \in DOMAIN fsReq :
        \A i \in 1..Len(fsReq[f]) : fsReq[f][i] \notin {SpecE, SpecEts}

\* the equivalence of C10 on the projects that require no file with `$$`
\* in its name
SameAsNativeDollarFree ==
    RunOver /\ NativeProgram /\ DollarFree => rtTrace = NativeTrace

-----------------------------------------------------------------------------
(* Further claims about the build                                          *)

\* the activation on top is about to write modules[id] (lines 410, 441)
AboutToStore == Running /\ Top.pc \in {"store", "storeJson"}

\* C11: every module id is inserted into the table at most once (no write
\* of modules[id] happens for an id already in the table), and a record
\* once inserted is never overwritten or removed during the build.
C11_InsertedOnceAndKept ==
    /\ [](AboutToStore => TopId \notin TableIds(modules))
    /\ [][/\ Len(modules') >= Len(modules)
          /\ \A k \in 1..Len(modules) : modules'[k] = modules[k]]_vars

\* the build is done; a.ts requires b.ts and c.ts (as `./c`), b.ts requires
\* c.ts too (as `./c.ts`): a diamond through two specifiers
C11_Witness ==
    /\ status = "resolved"
    /\ \E i \in 1..Len(fsReq[FileA]) : fsReq[FileA][i] = SpecC
    /\ \E i \in 1..Len(fsReq[FileA]) : fsReq[FileA][i] = SpecB
    /\ \E i \in 1..Len(fsReq[FileB]) : fsReq[FileB][i] = SpecCts
    /\ Cardinality({k \in 1..Len(modules) : modules[k].id = FileC}) = 1
    /\ Len(modules) = 3

\* loadModule is suspended at an await (readFile, parseForImports, the
\* recursive loadModule, transformToCjs), or no activation exists
AtAwait == ~Running \/ Top.pc \in {"readJson", "read", "parse", "deps"}

\* C12 as stated: visiting and visited are disjoint in every state between
\* two successive statements of loadModule.
C12_DisjointAtEveryStatement == visiting \cap visited = {}

\* C12, amended: visiting and visited are disjoint at every await point of
\* the build; the only states in which they meet are those between
\* visited.add(id) and visiting.delete(id) of one activation, and then they
\* share exactly that id.
C12_DisjointAtAwaitPoints ==
    /\ AtAwait => visiting \cap visited = {}
    /\ visiting \cap visited =
          IF Running /\ Top.pc = "unmarkVisiting" THEN {TopId} ELSE {}

\* an await point inside a nested activation, with modules already visited
C12_Witness ==
    /\ Running /\ Top.pc = "deps"
    /\ Cardinality(visiting) >= 2
    /\ visited # {}

\* the specifier starts with `.` or `/`
StartsLocal(s) == s # <<>> /\ s[1] \in {".", "/"}

\* the external specifiers the text of f requires
ExternalsOf(f) ==
    {fsReq[f][i] : i \in 1..Len(fsReq[f])} \ {s \in BuildSpecifiers : StartsLocal(s)}

\* C13: every dependency map, recorded or still being built, has only
\* local specifiers as keys, namely the local specifiers the module's text
\* requires; the specifiers an activation resolves and loads are local
\* ones, and every activation other than the entry's was started for the
\* file a local specifier of its caller denotes.
C13_MapsHoldLocalSpecifiersOnly ==
    /\ \A id \in DOMAIN requireMaps :
          \A k \in 1..Len(requireMaps[id]) :
             /\ StartsLocal(requireMaps[id][k].spec)
             /\ \E i \in 1..Len(fsReq[id]) : fsReq[id][i] = requireMaps[id][k].spec
             /\ requireMaps[id][k].id = DenotedFile(requireMaps[id][k].spec)
    /\ \A n \in 1..Len(stack) :
          /\ \A i \in 1..Len(stack[n].imports) : StartsLocal(stack[n].imports[i])
          /\ \A k \in 1..Len(stack[n].map) : StartsLocal(stack[n].map[k].spec)
          /\ n > 1 =>
                \E i \in 1..Len(stack[n - 1].imports) :
                   /\ StartsLocal(stack[n - 1].imports[i])
                   /\ stack[n].absPath = DenotedFile(stack[n - 1].imports[i])
    /\ \A f \in DOMAIN entered : entered[f] > 0 => f \in Reachable(entryAbs)

\* the entry requires a package and a local file; the build is done and the
\* entry's map has the local specifier as its only key
C13_Witness ==
    /\ status = "resolved"
    /\ ExternalsOf(FileA) = {SpecExternal}
    /\ Len(fsReq[FileA]) >= 2
    /\ FileA \in DOMAIN requireMaps
    /\ Len(requireMaps[FileA]) = Len(fsReq[FileA]) - 1

-----------------------------------------------------------------------------
(* Two builds in one process.  The build variables hold the state of the   *)
(* build that is running; the other build's state is parked in `proc`,     *)
(* and the two change places where the running build awaits.  Nothing of   *)
(* complie_swc.js outside the function complie_swc is mutable, so nothing  *)
(* stays behind when they change places.                                   *)

MaxRequiresTwo == 2

FileMissing == <<"/", "z", "z", ".", "t", "s">>

\* the specifiers the source files of two-build projects require
TwoBuildSpecifiers == {SpecA, SpecB, SpecD, SpecMissing}

RunningBuild ==
    [stack |-> stack, modules |-> modules, requireMaps |-> requireMaps,
     visiting |-> visiting, visited |-> visited, status |-> status,
     thrown |-> thrown, outcome |-> outcome, entryAbs |-> entryAbs,
     entered |-> entered, steps |-> steps]

\* the build variables take the values of the parked build b
Resumes(b) ==
    /\ stack' = b.stack /\ modules' = b.modules /\ requireMaps' = b.requireMaps
    /\ visiting' = b.visiting /\ visited' = b.visited /\ status' = b.status
    /\ thrown' = b.thrown /\ outcome' = b.outcome /\ entryAbs' = b.entryAbs
    /\ entered' = b.entered /\ steps' = b.steps

\* the running build is at an await, has not been called yet or is over:
\* no statement of it is in progress
Suspended ==
    \/ status \in {"notCalled", "resolved", "rejected"}
    \/ Running /\ Top.pc \in {"readJson", "read", "parse", "deps"}

CanRun(b) == b.status \in {"notCalled", "running"}

\* a process in which `visited` is one set shared by all builds
Switch_SharedVisited ==
    /\ Suspended /\ CanRun(proc.parked)
    /\ steps > proc.resumedAt \/ ~CanRun(RunningBuild)
    /\ Resumes([proc.parked EXCEPT !.visited = visited])
    /\ proc' = [cur |-> 3 - proc.cur,
                resumedAt |-> proc.parked.steps,
                mixed |-> proc.mixed \/ (Running /\ proc.parked.status = "running"),
                parked |-> RunningBuild]
    /\ UNCHANGED <<fsVars, resolveVars, rewriteVars, runVars, jsonFile, cli, call>>

\* the event loop continues the other build
Switch ==
    /\ Suspended /\ CanRun(proc.parked)
    /\ steps > proc.resumedAt \/ ~CanRun(RunningBuild)
    /\ Resumes(proc.parked)
    /\ proc' = [cur |-> 3 - proc.cur,
                resumedAt |-> proc.parked.steps,
                mixed |-> proc.mixed \/ (Running /\ proc.parked.status = "running"),
                parked |-> RunningBuild]
    /\ UNCHANGED <<fsVars, resolveVars, rewriteVars, runVars, jsonFile, cli, call>>

\* lines 371-384 and 451: complie_swc is called; a missing entry file ends
\* the process, otherwise the build's own tables are created and
\* loadModule(entryAbs) is called
BuildCall ==
    /\ status = "notCalled"
    /\ IF ~(entryAbs \in fsFiles \/ entryAbs \in fsDirs)
       THEN /\ status' = "exited"
            /\ proc' = [proc EXCEPT !.parked.status = "exited"]
            /\ UNCHANGED <<stack, entered>>
       ELSE /\ status' = "running"
            /\ stack' = <<Frame(entryAbs)>>
            /\ entered' = [f \in ProjectFiles |-> 0]
            /\ UNCHANGED proc
    /\ modules' = <<>> /\ requireMaps' = <<>>
    /\ visiting' = {} /\ visited' = {}
    /\ UNCHANGED <<thrown, outcome, entryAbs>>
    /\ Tick
    /\ UNCHANGED <<fsVars, resolveVars, rewriteVars, runVars, jsonFile, cli, call>>

InitTwoBuilds ==
    /\ ResolveIdle
    /\ RewriteIdle
    /\ RunIdle
    /\ CliIdle
    /\ CallIdle
    /\ JsonIdle
    /\ \E e \in {FileA, FileB, FileMissing} :
          proc = [cur |-> 1, resumedAt |-> 0, mixed |-> FALSE,
                  parked |-> BuildState("notCalled", e)]
    /\ \E ra \in SeqsUpTo(TwoBuildSpecifiers, MaxRequiresTwo) :
       \E rb \in SeqsUpTo(TwoBuildSpecifiers, MaxRequiresTwo - Len(ra)) :
          BuildStarts(RequireStmts(ra), RequireStmts(rb), <<>>)

NextTwoBuilds == NextBuild \/ BuildCall \/ Switch

SpecTwoBuilds == InitTwoBuilds /\ [][NextTwoBuilds]_vars

-----------------------------------------------------------------------------
(* A build run alone and without failing steps, as one function of the     *)
(* entry and the file system: the traversal of loadModule written as a     *)
(* recursion.                                                              *)

SoloStart == [modules |-> <<>>, visiting |-> {}, visited |-> {}, ok |-> TRUE]

SoloRecord(absPath, code) ==
    [id |-> normalizeId(absPath), filename |-> absPath,
     dirname |-> PathDirname(absPath), code |-> code]

SoloDone(st, absPath, code) ==
    [st EXCEPT !.modules = TablePut(@, normalizeId(absPath),
                                    SoloRecord(absPath, code)),
               !.visited = @ \cup {normalizeId(absPath)},
               !.visiting = @ \ {normalizeId(absPath)}]

RECURSIVE SoloLoad(_, _)
RECURSIVE SoloDeps(_, _, _, _)

SoloLoad(absPath, st) ==
    LET id == normalizeId(absPath)
    IN  IF ~st.ok \/ id \in st.visited \/ id \in st.visiting THEN st
        ELSE LET st1 == [st EXCEPT !.visiting = @ \cup {id}]
             IN  IF ToLowerCase(PathExtname(absPath)) = <<".", "j", "s", "o", "n">>
                 THEN SoloDone(st1, absPath,
                               JsonModuleCode(JSONParse(ReadFile(absPath))))
                 ELSE LET source  == patchImportMetaUrl(ReadFile(absPath))
                          imports == parseForImports(absPath, source)
                          map     == [i \in 1..Len(imports) |->
                                        [spec |-> imports[i],
                                         id |-> normalizeId(
                                                  resolveLocal(absPath, imports[i]))]]
                      IN  IF \E i \in 1..Len(imports) :
                                resolveLocal(absPath, imports[i]) = NULL
                          THEN [st1 EXCEPT !.ok = FALSE]
                          ELSE LET st2 == SoloDeps(absPath, imports, 1, st1)
                               IN  IF ~st2.ok THEN st2
                                   ELSE SoloDone(st2, absPath,
                                          rewriteLocalRequires(
                                            transformToCjs(absPath, source), map))

SoloDeps(absPath, imports, i, st) ==
    IF i > Len(imports) \/ ~st.ok THEN st
    ELSE SoloDeps(absPath, imports, i + 1,
                  SoloLoad(resolveLocal(absPath, imports[i]), st))

\* the bundle of the entry, or NoValue when a specifier does not resolve
SoloBundle(entry) ==
    LET st == SoloLoad(entry, SoloStart)
    IN  IF st.ok THEN BundleOf(st.modules, entry) ELSE NoValue

-----------------------------------------------------------------------------
(* Further claims about the bundle at run time                             *)

\* how many times the body of id was started
Executions(id) ==
    Cardinality({k \in 1..Len(rtTrace) :
                    rtTrace[k].e = "exec" /\ rtTrace[k].id = id})

\* how many requests for id were answered
Requests(id) ==
    Cardinality({k \in 1..Len(rtTrace) :
                    rtTrace[k].e = "ret" /\ rtTrace[k].id = id})

\* C15: within one run the body of every table module is started at most
\* once, and no module has two activations at the same time, however many
\* requests target it and also on cycles.
C15_BodyAtMostOnce ==
    status = "resolved" =>
        /\ \A id \in TableKeys : Executions(id) <= 1
        /\ \A m, n \in 1..Len(rtStack) : m # n => rtStack[m].id # rtStack[n].id

\* the run is over; b.ts, on a cycle with the entry, was requested twice
\* by the entry and executed once, and the entry was requested by b.ts
C15_Witness ==
    /\ rtState = "done"
    /\ Requests(FileB) >= 2 /\ Executions(FileB) = 1
    /\ \E k \in 1..Len(rtTrace) :
          rtTrace[k].e = "ret" /\ rtTrace[k].id = FileA /\ rtTrace[k].from = FileB
    /\ Executions(FileA) = 1

-----------------------------------------------------------------------------
(* JSON modules: the text of a JSON file becomes the code of its record    *)
(* (lines 408-415), and the loader's call of that body yields its exports. *)

MaxJsonDepth == 2
MaxJsonItems == 2

JsonLeaves ==
    {JNull, JTrue, JNum(7), JInfinity, JStr(<<"a", "\"", "\\">>)}

JsonKeys == {<<"a">>, PROTO}

\* arrays and objects of up to n values of V; the keys of an object differ
ContainersOf(V, n) ==
    {JArr(items) : items \in SeqsUpTo(V, n)}
    \cup {JObj([i \in 1..Len(ks) |-> [k |-> ks[i], v |-> vs[i]]]) :
            <<ks, vs>> \in {p \in SeqsUpTo(JsonKeys, n) \X SeqsUpTo(V, n) :
                              /\ Len(p[1]) = Len(p[2])
                              /\ \A i, j \in 1..Len(p[1]) :
                                    i # j => p[1][i] # p[1][j]}}

RECURSIVE JsonValues(_)
\* values nested d deep; a container of containers has one item
JsonValues(d) ==
    IF d = 0 THEN JsonLeaves
    ELSE JsonValues(d - 1)
         \cup ContainersOf(JsonValues(d - 1), IF d = 1 THEN MaxJsonItems ELSE 1)

RECURSIVE JsonFileText(_)
RECURSIVE JsonFileItems(_, _)

\* a JSON text of the value, with white space after `:` and `,`; the
\* number too large for a double is written 1e999
JsonFileText(v) ==
    CASE v.t = "inf" -> <<"1", "e", "9", "9", "9">>
      [] v.t = "arr" -> <<"[">> \o JsonFileItems(v.items, FALSE) \o <<"]">>
      [] v.t = "obj" -> <<"{">> \o JsonFileItems(v.items, TRUE) \o <<"}">>
      [] OTHER -> JSONStringify(v)

JsonFileItems(items, members) ==
    IF items = <<>> THEN <<>>
    ELSE (IF members
          THEN QuoteJSONString(Head(items).k) \o <<":", " ">>
               \o JsonFileText(Head(items).v)
          ELSE JsonFileText(Head(items)))
         \o (IF Len(items) > 1 THEN <<",", " ">> ELSE <<>>)
         \o JsonFileItems(Tail(items), members)

InitJson ==
    /\ ResolveIdle
    /\ RewriteIdle
    /\ BuildIdle
    /\ RunIdle
    /\ CliIdle
    /\ CallIdle
    /\ SingleBuild
    /\ fsFiles = {} /\ fsDirs = {} /\ fsSrc = <<>> /\ fsReq = <<>>
    /\ \E v \in JsonValues(MaxJsonDepth) :
          jsonFile = [pc |-> "file", text |-> JsonFileText(v), code |-> <<>>,
                  exports |-> JNull]

otherThanJson ==
    <<fsVars, resolveVars, rewriteVars, buildVars, runVars, proc, cli, call>>

\* lines 408-415: the text is parsed and the record's code is written
JsonRecord ==
    /\ jsonFile.pc = "file"
    /\ jsonFile' = [jsonFile EXCEPT
                      !.pc = "record",
                      !.code = JsonModuleCode(JSONParse(jsonFile.text))]
    /\ UNCHANGED otherThanJson

\* lines 476-479: the loader calls the body, which evaluates the literal
\* and assigns it to module.exports, and returns module.exports
JsonLoad ==
    /\ jsonFile.pc = "record"
    /\ jsonFile' = [jsonFile EXCEPT
                      !.pc = "loaded",
                      !.exports = ReadValue(SwcParse(jsonFile.code)[1].spec,
                                            1, TRUE).v]
    /\ UNCHANGED otherThanJson

NextJson == JsonRecord \/ JsonLoad

SpecJson == InitJson /\ [][NextJson]_vars

RECURSIVE DeepEqual(_, _)
\* same kind, same number or string, same elements, same keys with equal
\* values
DeepEqual(a, b) ==
    /\ a.t = b.t
    /\ a.n = b.n
    /\ a.s = b.s
    /\ Len(a.items) = Len(b.items)
    /\ a.t = "arr" => \A i \in 1..Len(a.items) : DeepEqual(a.items[i], b.items[i])
    /\ a.t = "obj" =>
          \A i \in 1..Len(a.items) :
             \E j \in 1..Len(b.items) :
                /\ a.items[i].k = b.items[j].k
                /\ DeepEqual(a.items[i].v, b.items[j].v)

\* C16: the exports the loader returns for a JSON module deep-equal the
\* value obtained by parsing the file's text.
C16_JsonExportsDeepEqual ==
    jsonFile.pc = "loaded" =>
        DeepEqual(jsonFile.exports, JSONParse(jsonFile.text))

RECURSIVE Plain(_)
\* a value with no member named __proto__ and no number beyond the doubles
Plain(v) ==
    /\ v.t # "inf"
    /\ v.t = "arr" => \A i \in 1..Len(v.items) : Plain(v.items[i])
    /\ v.t = "obj" => \A i \in 1..Len(v.items) :
                         v.items[i].k # PROTO /\ Plain(v.items[i].v)

\* the equality of C16 for the values without such members and numbers
JsonExportsDeepEqualPlain ==
    jsonFile.pc = "loaded" /\ Plain(JSONParse(jsonFile.text)) =>
        DeepEqual(jsonFile.exports, JSONParse(jsonFile.text))

-----------------------------------------------------------------------------
(* bin/index.js and lib/actions/index.js: the dctc command                 *)

MaxArgs == 3

ArgCompilerLong == <<"-", "-", "c", "o", "m", "p", "i", "l", "e", "r">>
ArgCompilerShort == <<"-", "c">>
ArgVersion == <<"-", "v">>
ArgHelp == <<"-", "-", "h", "e", "l", "p">>
ArgFile == <<"a", ".", "t", "s">>
ArgOtherFile == <<"b", ".", "t", "s">>
ArgNoFile == <<"z", "z", ".", "t", "s">>
NameEs == <<"e", "s">>
NameEsbuild == <<"e", "s", "b", "u", "i", "l", "d">>
NameSwc == <<"s", "w", "c">>
NameRollup == <<"R", "o", "l", "l", "u", "p">>
NameRolldown == <<"r", "o", "l", "l", "d", "o", "w", "n">>
NameOther == <<"t", "s", "c">>

CliArguments ==
    {ArgCompilerLong, ArgCompilerShort, ArgVersion, ArgHelp, ArgFile,
     ArgOtherFile, ArgNoFile, NameEs, NameEsbuild, NameSwc, NameRollup,
     NameRolldown, NameOther}

\* the regular files of the working directory
CliFiles == {ArgFile, ArgOtherFile}

\* bin/index.js lines 7-20
isVersion(param) ==
    ToLowerCase(param) \in {<<"-", "-", "v", "e", "r", "s", "i", "o", "n">>,
                            <<"-", "v">>}

isHelp(param) == ToLowerCase(param) \in {ArgHelp, <<"-", "h">>}

isCompilerOption(param) ==
    ToLowerCase(param) \in {ArgCompilerLong, ArgCompilerShort}

\* bin/index.js lines 22-32
isFilePath(param) == param \in CliFiles

InitCli ==
    /\ ResolveIdle
    /\ RewriteIdle
    /\ BuildIdle
    /\ RunIdle
    /\ SingleBuild
    /\ JsonIdle
    /\ CallIdle
    /\ fsFiles = {} /\ fsDirs = {} /\ fsSrc = <<>> /\ fsReq = <<>>
    /\ \E args \in SeqsUpTo(CliArguments, MaxArgs) :
          cli = [pc |-> "args", args |-> args, i |-> 1, compiler |-> NameEs,
                 filePath |-> NULL, backend |-> "", code |-> "", vm |-> "",
                 exit |-> -1, out |-> <<>>]

otherThanCli ==
    <<fsVars, resolveVars, rewriteVars, buildVars, runVars, proc, jsonFile,
      call>>

\* a loop that does not skip the argument after --compiler/-c
CliArg_NameNotSkipped ==
    /\ cli.pc = "args" /\ cli.i <= Len(cli.args)
    /\ LET arg == cli.args[cli.i]
       IN  cli' =
             IF isVersion(arg) THEN
                 [cli EXCEPT !.pc = "returned", !.out = Append(@, "version")]
             ELSE IF isHelp(arg) THEN
                 [cli EXCEPT !.pc = "returned", !.out = Append(@, "help")]
             ELSE IF isCompilerOption(arg) THEN
                 IF cli.i + 1 <= Len(cli.args)
                 THEN [cli EXCEPT !.compiler = ToLowerCase(cli.args[cli.i + 1]),
                                  !.i = @ + 1]
                 ELSE [cli EXCEPT !.pc = "exited", !.exit = 1,
                                  !.out = @ \o <<"no compiler name", "help">>]
             ELSE IF isFilePath(arg) THEN
                 [cli EXCEPT !.filePath = arg, !.i = @ + 1]
             ELSE [cli EXCEPT !.i = @ + 1]
    /\ UNCHANGED otherThanCli

\* bin/index.js lines 40-62: one turn of the argument loop
CliArg ==
    /\ cli.pc = "args" /\ cli.i <= Len(cli.args)
    /\ LET arg == cli.args[cli.i]
       IN  cli' =
             IF isVersion(arg) THEN
                 [cli EXCEPT !.pc = "returned", !.out = Append(@, "version")]
             ELSE IF isHelp(arg) THEN
                 [cli EXCEPT !.pc = "returned", !.out = Append(@, "help")]
             ELSE IF isCompilerOption(arg) THEN
                 IF cli.i + 1 <= Len(cli.args)
                 THEN [cli EXCEPT !.compiler = ToLowerCase(cli.args[cli.i + 1]),
                                  !.i = @ + 2]
                 ELSE [cli EXCEPT !.pc = "exited", !.exit = 1,
                                  !.out = @ \o <<"no compiler name", "help">>]
             ELSE IF isFilePath(arg) THEN
                 [cli EXCEPT !.filePath = arg, !.i = @ + 1]
             ELSE [cli EXCEPT !.i = @ + 1]
    /\ UNCHANGED otherThanCli

\* bin/index.js lines 64-70: after the loop
CliDispatch ==
    /\ cli.pc = "args" /\ cli.i > Len(cli.args)
    /\ cli' = IF cli.filePath # NULL
              THEN [cli EXCEPT !.pc = "applyDctc"]
              ELSE [cli EXCEPT !.pc = "exited", !.exit = 1,
                               !.out = @ \o <<"no file path", "help">>]
    /\ UNCHANGED otherThanCli

\* a switch whose default case rejects the name
SelectBackend_RejectsUnknown(compiler) ==
    CASE ToLowerCase(compiler) \in {NameEs, NameEsbuild} -> "complie_es"
      [] ToLowerCase(compiler) = ToLowerCase(NameRollup) -> "complie_rollup"
      [] ToLowerCase(compiler) = NameRolldown -> "complie_rolldown"
      [] OTHER -> "rejected"

\* lib/actions/index.js lines 27-45: the switch on the compiler name
SelectBackend(compiler) ==
    CASE ToLowerCase(compiler) \in {NameEs, NameEsbuild} -> "complie_es"
      [] ToLowerCase(compiler) = ToLowerCase(NameRollup) -> "complie_rollup"
      [] ToLowerCase(compiler) = NameRolldown -> "complie_rolldown"
      [] OTHER -> "complie_es"

\* lib/actions/index.js lines 27-45: applyDctc compiles the file; the
\* compilation succeeds or its promise is rejected, which nothing handles
ApplyDctc ==
    /\ cli.pc = "applyDctc"
    /\ \E ok \in BOOLEAN :
          cli' = [cli EXCEPT
                    !.backend = SelectBackend(cli.compiler),
                    !.out = IF ToLowerCase(cli.compiler) \in
                                 {NameEs, NameEsbuild, ToLowerCase(NameRollup),
                                  NameRolldown}
                            THEN @ ELSE Append(@, "unknown compiler"),
                    !.code = IF ok THEN "compiled" ELSE "rejected",
                    !.pc = IF ok THEN "execute" ELSE "exited",
                    !.exit = IF ok THEN @ ELSE 1]
    /\ UNCHANGED otherThanCli

\* execute that lets the exception go by: the exit of line 48 follows
Execute_NoCatch ==
    /\ cli.pc = "execute"
    /\ \E throws \in BOOLEAN :
          cli' = [cli EXCEPT !.pc = "exited",
                             !.vm = IF throws THEN "threw" ELSE "completed",
                             !.exit = 0]
    /\ UNCHANGED otherThanCli

\* lib/actions/index.js lines 47-48 and lib/execute.js lines 27-63: the
\* code runs in the new context; if creating or running the script throws,
\* execute reports it and exits with 1, otherwise applyDctc exits with 0
Execute ==
    /\ cli.pc = "execute"
    /\ \E throws \in BOOLEAN :
          cli' = [cli EXCEPT !.pc = "exited",
                             !.vm = IF throws THEN "threw" ELSE "completed",
                             !.exit = IF throws THEN 1 ELSE 0,
                             !.out = IF throws THEN Append(@, "Execute failed")
                                     ELSE @]
    /\ UNCHANGED otherThanCli

NextCli == CliArg \/ CliDispatch \/ ApplyDctc \/ Execute

SpecCli == InitCli /\ [][NextCli]_vars

\* the backend each documented name stands for (README, Options)
DocumentedBackend(name) ==
    CASE name = NameEs -> "complie_es"
      [] name = NameSwc -> "complie_swc"
      [] name = <<"r", "o", "l", "l", "u", "p">> -> "complie_rollup"
      [] name = NameRolldown -> "complie_rolldown"
      [] OTHER -> ""

\* C17: the file is compiled by the backend of the compiler name given:
\* swc selects complie_swc, es, rollup and rolldown their own backend, and
\* es is used when no compiler is given.
C17_NameSelectsBackend ==
    cli.backend # "" /\ DocumentedBackend(cli.compiler) # "" =>
        cli.backend = DocumentedBackend(cli.compiler)

\* the names other than swc select their backend, es being the default
NameSelectsBackendExceptSwc ==
    cli.backend # "" /\ DocumentedBackend(cli.compiler) # ""
        /\ cli.compiler # NameSwc =>
        cli.backend = DocumentedBackend(cli.compiler)

\* C31: when compilation and execution both succeed the process exits with
\* code 0; when running the compiled code throws synchronously, execute
\* reports the error and the process exits with code 1.
C31_ExitCodes ==
    cli.pc = "exited" =>
        /\ cli.code = "compiled" /\ cli.vm = "completed" => cli.exit = 0
        /\ cli.vm = "threw" =>
              /\ cli.exit = 1
              /\ cli.out # <<>> /\ cli.out[Len(cli.out)] = "Execute failed"

\* the compiled code of a.ts, named after -c, threw in the new context
C31_Witness ==
    /\ cli.pc = "exited" /\ cli.vm = "threw" /\ cli.code = "compiled"
    /\ cli.filePath = ArgFile /\ Len(cli.args) = 3

\* the compiler names applyDctc has a case for
KnownNames == {NameEs, NameEsbuild, ToLowerCase(NameRollup), NameRolldown}

RECURSIVE NamePositions(_, _)
\* the command line as its reader sees it, from position i on: the
\* positions of the arguments that follow a --compiler/-c option and are
\* its value, up to the first version or help flag
NamePositions(args, i) ==
    IF i > Len(args) \/ isVersion(args[i]) \/ isHelp(args[i]) THEN {}
    ELSE IF isCompilerOption(args[i])
    THEN IF i + 1 <= Len(args)
         THEN {i + 1} \cup NamePositions(args, i + 2) ELSE {}
    ELSE NamePositions(args, i + 1)

\* the arguments that are neither the value of an option nor behind a
\* version or help flag
ReadPositions(args) ==
    {i \in 1..Len(args) :
        /\ i \notin NamePositions(args, 1)
        /\ \A j \in 1..(i - 1) :
              j \in NamePositions(args, 1)
                 \/ (~isVersion(args[j]) /\ ~isHelp(args[j]))}

\* the positions of the file paths among them
FilePositions(args) == {i \in ReadPositions(args) : isFilePath(args[i])}

Max(S) == CHOOSE x \in S : \A y \in S : y <= x

\* the work is over: the process has exited or work() has returned
CliOver == cli.pc \in {"returned", "exited"}

\* the value of every option is its compiler name and nothing else, and
\* the last file path is the one compiled
NamesAndFiles ==
    /\ cli.backend # "" =>
          /\ FilePositions(cli.args) # {}
          /\ cli.filePath = cli.args[Max(FilePositions(cli.args))]
          /\ cli.compiler =
                IF NamePositions(cli.args, 1) = {} THEN NameEs
                ELSE ToLowerCase(cli.args[Max(NamePositions(cli.args, 1))])
    /\ CliOver /\ FilePositions(cli.args) = {} => cli.backend = ""
    /\ cli.filePath # NULL =>
          \E j \in FilePositions(cli.args) : cli.filePath = cli.args[j]
    /\ cli.pc = "returned" =>
          \E i \in ReadPositions(cli.args) :
              isVersion(cli.args[i]) \/ isHelp(cli.args[i])

-----------------------------------------------------------------------------
(* isLocalSpecifier called with any value                                   *)

MaxSpecLen == 3

\* the characters a specifier is made of here: the two that make it local,
\* a letter and the sign a scoped package starts with
SpecifierChars == {".", "/", "a", "@"}

SpecifierStrings == SeqsUpTo(SpecifierChars, MaxSpecLen)

\* values that are not strings, some of them holding a local specifier
NonStrings ==
    {JUndefined, JNull, JTrue, JFalse, JNum(0), JNum(1), JInfinity,
     JArr(<<>>), JArr(<<JStr(<<".", "/", "a">>)>>), JObj(<<>>),
     JObj(<<[k |-> <<"a">>, v |-> JStr(<<"/", "a">>)]>>)}

InitLocal ==
    /\ ResolveIdle
    /\ RewriteIdle
    /\ BuildIdle
    /\ RunIdle
    /\ SingleBuild
    /\ JsonIdle
    /\ CliIdle
    /\ fsFiles = {} /\ fsDirs = {} /\ fsSrc = <<>> /\ fsReq = <<>>
    /\ \E v \in {JStr(s) : s \in SpecifierStrings} \cup NonStrings :
          call = [pc |-> "call", arg |-> v, result |-> JNull]

LocalCall ==
    /\ call.pc = "call"
    /\ call' = [call EXCEPT !.pc = "done", !.result = isLocalSpecifier(call.arg)]
    /\ UNCHANGED <<fsVars, resolveVars, rewriteVars, buildVars, runVars, proc,
                   jsonFile, cli>>

NextLocal == LocalCall

SpecLocal == InitLocal /\ [][NextLocal]_vars

\* C18: isLocalSpecifier returns true exactly for the strings whose first
\* character is `.` or `/`, false for every other string (the empty string
\* and bare package names among them) and for every value that is not a
\* string, and it never throws.
C18_LocalExactly ==
    call.pc = "done" =>
        /\ call.result \in {JTrue, JFalse}
        /\ call.result = JTrue <=>
              /\ call.arg.t = "str"
              /\ call.arg.s # <<>>
              /\ call.arg.s[1] \in {".", "/"}

\* the function has answered false for a value that is not a string, an
\* array whose only element is a local specifier
C18_Witness ==
    /\ call.pc = "done"
    /\ call.arg = JArr(<<JStr(<<".", "/", "a">>)>>)
    /\ call.result = JFalse

-----------------------------------------------------------------------------
(* Two builds of the same entry                                             *)

-----------------------------------------------------------------------------
(* When the loader returns                                                  *)

\* the body of id is executing: it has an activation
Executing(id) == \E m \in 1..Len(rtStack) : rtStack[m].id = id

\* how many events of the kinds es the body of id has caused
Caused(id, es) ==
    Cardinality({k \in 1..Len(rtTrace) :
                    rtTrace[k].e \in es /\ rtTrace[k].from = id})

\* how many statements of the body of id have the type
StmtsOf(id, type) ==
    Cardinality({k \in 1..Len(BodyOf(id)) : BodyOf(id)[k].type = type})

\* the body of id was started and all its statements were executed: every
\* call it makes was answered and every assignment made
Completed(id) ==
    /\ Executions(id) = 1
    /\ Caused(id, {"ret", "host"}) = StmtsOf(id, "call")
    /\ Caused(id, {"assign"}) = StmtsOf(id, "assign")

\* the loader has just returned the exports of a table module
JustReturned ==
    /\ status = "resolved"
    /\ rtTrace # <<>>
    /\ rtTrace[Len(rtTrace)].e = "ret"
    /\ rtTrace[Len(rtTrace)].id \in TableKeys

\* the module whose activation is the m-th called the loader to start the
\* next activation; the bundle's own call started the first
CallerOf(m) == IF m = 1 THEN <<>> ELSE rtStack[m - 1].id

-----------------------------------------------------------------------------
(* Registration before execution                                            *)

\* the module object of the activation of id
ActivationModule(id) ==
    rtStack[CHOOSE m \in 1..Len(rtStack) : rtStack[m].id = id].module

\* C21: the module object of a table id is in the cache while its body is
\* executing; a request for the id made meanwhile returns the container
\* that body is populating; and the run does not recurse without end: no
\* module is entered twice and the call stack never overflows.
C21_RegisteredBeforeExecuted ==
    status = "resolved" =>
        /\ \A m \in 1..Len(rtStack) :
              /\ rtStack[m].id \in DOMAIN rtCache
              /\ rtCache[rtStack[m].id] = rtStack[m].module
        /\ JustReturned /\ Executing(rtTrace[Len(rtTrace)].id) =>
              rtTrace[Len(rtTrace)].v =
                  rtExports[ActivationModule(rtTrace[Len(rtTrace)].id)]
        /\ \A k \in 1..Len(rtTrace) : rtTrace[k].e # "RangeError"
        /\ \A id \in TableKeys : Executions(id) <= 1

\* the run is over; b.ts asked for the entry and was answered before the
\* bundle's own call for the entry returned, that is while the entry's body
\* was executing
C21_Witness ==
    /\ rtState = "done"
    /\ \E k, j \in 1..Len(rtTrace) :
          /\ k < j
          /\ rtTrace[k].e = "ret" /\ rtTrace[k].id = FileA
          /\ rtTrace[k].from = FileB
          /\ rtTrace[j].e = "ret" /\ rtTrace[j].id = FileA
          /\ rtTrace[j].from = <<>>

-----------------------------------------------------------------------------
(* Dependencies first                                                       *)

\* the ids on the current recursion path of loadModule
PathIds == {normalizeId(stack[n].absPath) : n \in 1..Len(stack)}

\* the dependencies of the innermost activation whose load has returned:
\* all of them once the loop is over
LoadedDeps ==
    IF Top.pc = "deps"
    THEN {Top.map[k].id : k \in 1..(Top.i - 1)}
    ELSE {Top.map[k].id : k \in 1..Len(Top.map)}

\* C22: every dependency of a module whose load has returned is stored in
\* the table or lies on the recursion path, in particular when the module
\* is transformed and when its record is stored; every record of the table
\* comes after the records of its dependencies, unless the dependency lies
\* on a cycle with it.
C22_DependenciesStoredFirst ==
    /\ Running /\ Top.pc \in {"deps", "store", "markVisited", "unmarkVisiting"}
          => LoadedDeps \subseteq TableIds(modules) \cup PathIds
    /\ \A k \in 1..Len(modules) :
          modules[k].id \in DOMAIN requireMaps =>
              \A x \in 1..Len(requireMaps[modules[k].id]) :
                  LET d == requireMaps[modules[k].id][x].id
                  IN  \/ \E j \in 1..(k - 1) : modules[j].id = d
                      \/ modules[k].id \in Reachable(d)

\* the entry of an acyclic project requires two files, one of which
\* requires a third; the entry has been transformed and is about to be
\* stored after the three others
C22_Witness ==
    /\ Running /\ Top.pc = "store" /\ TopId = FileA
    /\ Len(Top.map) = 2 /\ Top.map[1].id # Top.map[2].id
    /\ Len(modules) = 3
    /\ \A f \in Reachable(FileA) : ~OnCycle(f)

-----------------------------------------------------------------------------
(* One module at a time                                                     *)

\* the modules in progress: loadModule has passed its guards for them and
\* has not yet marked them visited
InProgress ==
    {f \in DOMAIN entered : entered[f] >= 1 /\ f \notin visited}

\* C23: while a build runs, every activation but the innermost is suspended
\* in its dependency loop, awaiting the load of the dependency the next
\* activation is for; the dependencies before that one are stored or were
\* skipped as being on the path; and every module in progress is on that
\* single recursion path.
C23_OneModuleAtATime ==
    status = "running" =>
        /\ \A n \in 1..(Len(stack) - 1) :
              /\ stack[n].pc = "deps"
              /\ stack[n].i >= 2 /\ stack[n].i <= Len(stack[n].map) + 1
              /\ normalizeId(stack[n + 1].absPath) = stack[n].map[stack[n].i - 1].id
              /\ \A k \in 1..(stack[n].i - 2) :
                    stack[n].map[k].id \in TableIds(modules) \cup
                        {normalizeId(stack[m].absPath) : m \in 1..n}
        /\ InProgress \subseteq PathIds
        /\ visiting \ visited \subseteq PathIds

\* the entry awaits the load of its second dependency, whose source is
\* being read; the first dependency is stored
C23_Witness ==
    /\ Running /\ Len(stack) = 2 /\ Top.pc = "read"
    /\ stack[1].i = 3
    /\ stack[1].map[1].id \in TableIds(modules)
    /\ stack[1].map[2].id \notin TableIds(modules)

-----------------------------------------------------------------------------
(* JSON modules are terminal                                                *)

IsJsonPath(absPath) ==
    ToLowerCase(PathExtname(absPath)) = <<".", "j", "s", "o", "n">>

\* C24: an activation for a .json file only reads the file and stores the
\* record: it never extracts, resolves, loads dependencies or transforms,
\* and no activation is nested in it; the record's body is the assignment
\* of the parsed value to module.exports and its dependency map is empty.
C24_JsonTerminal ==
    /\ \A n \in 1..Len(stack) :
          IsJsonPath(stack[n].absPath) =>
              /\ n = Len(stack)
              /\ stack[n].pc \in {"enter", "readJson", "storeJson",
                                  "markVisited", "unmarkVisiting"}
              /\ stack[n].source = <<>>
              /\ stack[n].imports = <<>> /\ stack[n].map = <<>>
              /\ stack[n].i = 0
    /\ \A k \in 1..Len(modules) :
          IsJsonPath(modules[k].filename) =>
              /\ modules[k].code =
                    JsonModuleCode(JSONParse(ReadFile(modules[k].filename)))
              /\ modules[k].id \in DOMAIN requireMaps
              /\ requireMaps[modules[k].id] = <<>>

\* the build is done; the table holds the record of d.json, which a source
\* file requires
C24_Witness ==
    /\ status = "resolved"
    /\ FileD \in TableIds(modules)
    /\ Len(modules) >= 2
    /\ FileD \in LocalDeps(FileA) \cup LocalDeps(FileB)

-----------------------------------------------------------------------------
(* The dependency extractor on syntax trees                                 *)

MaxAstNodes == 2

\* nodes without nested nodes: the three collected forms with local and
\* package specifiers, and the forms that are not collected
AstLeaves ==
    {ImportNode(SpecA), ImportNode(SpecExternal),
     ExportNamedNode(TRUE, SpecB), ExportNamedNode(FALSE, <<>>),
     ExportAllNode(IdPlain),
     Stmt(REQUIRE, "\"", SpecA), Stmt(REQUIRE, "'", SpecB),
     Stmt(REQUIRE, "\"", SpecExternal),
     DynStmt, Stmt(DCTC_REQUIRE, "\"", SpecB),
     CallArgsNode(REQUIRE, <<>>), CallArgsNode(REQUIRE, <<SpecA, SpecB>>),
     DynamicImportNode(SpecB)}

AstNodes ==
    AstLeaves
    \cup {BlockNode(<<n>>) : n \in AstLeaves}
    \cup {BlockNode(<<BlockNode(<<n>>), DynStmt>>) :
             n \in {ImportNode(SpecA), ExportAllNode(IdPlain),
                    Stmt(REQUIRE, "'", SpecB)}}

InitExtract ==
    /\ ResolveIdle
    /\ RewriteIdle
    /\ BuildIdle
    /\ RunIdle
    /\ SingleBuild
    /\ JsonIdle
    /\ CliIdle
    /\ fsFiles = {} /\ fsDirs = {} /\ fsSrc = <<>> /\ fsReq = <<>>
    /\ \E ast \in SeqsUpTo(AstNodes, MaxAstNodes) :
          call = [pc |-> "extract", arg |-> ast, result |-> <<>>]

\* lines 233-240: the tree swc.parse returned is visited and the collected
\* specifiers are filtered
ExtractCall ==
    /\ call.pc = "extract"
    /\ call' = [call EXCEPT !.pc = "extracted",
                            !.result = LocalSpecifiersOf(call.arg)]
    /\ UNCHANGED <<fsVars, resolveVars, rewriteVars, buildVars, runVars, proc,
                   jsonFile, cli>>

NextExtract == ExtractCall

SpecExtract == InitExtract /\ [][NextExtract]_vars

RECURSIVE StaticSpecifiers(_)
\* the specifiers that occur, at any depth, as the source of an import
\* declaration, of a named re-export with a source or of a wildcard
\* re-export, or as the single string-literal argument of a call of require
StaticSpecifiers(ast) ==
    IF ast = <<>> THEN {}
    ELSE LET node == Head(ast)
             here == IF \/ node.type \in {"import", "exportAll"}
                        \/ node.type = "exportNamed" /\ node.hasSource
                        \/ node.type = "call" /\ node.callee = REQUIRE /\ node.lit
                     THEN {node.spec} ELSE {}
             below == IF node.type = "block"
                      THEN StaticSpecifiers(node.children) ELSE {}
         IN  here \cup below \cup StaticSpecifiers(Tail(ast))

\* C25: the extractor returns, without duplicates, exactly the local
\* specifiers that occur as the source of an import declaration, of a named
\* or wildcard re-export, or as the single string-literal argument of a call
\* of require, anywhere in the tree; a require call with a non-literal
\* argument, with no or several arguments, and import() contribute nothing.
C25_ExactlyStaticLocalSpecifiers ==
    call.pc = "extracted" =>
        /\ {call.result[i] : i \in 1..Len(call.result)} =
              {s \in StaticSpecifiers(call.arg) : StartsLocal(s)}
        /\ \A i, j \in 1..Len(call.result) :
              i # j => call.result[i] # call.result[j]

\* ./a is required inside a nested node and imported at the top level of
\* the same tree; the extractor has returned it once
C25_Witness ==
    /\ call.pc = "extracted"
    /\ Len(call.arg) = 2
    /\ call.arg[1].type = "block"
    /\ Len(call.arg[1].children) = 1
    /\ call.arg[1].children[1].type = "call"
    /\ call.arg[2].type = "import" /\ call.arg[2].spec = SpecA
    /\ call.result = <<SpecA>>

-----------------------------------------------------------------------------
(* The literal of a rewritten call                                          *)

\* the k-th record's call sites that the rewriter is to redirect: the
\* positions of its source statements that require a key of its map
RewrittenSites(k) ==
    LET src == SwcParse(ReadFile(modules[k].filename))
        map == requireMaps[modules[k].id]
    IN  {i \in 1..Len(src) : \E x \in 1..Len(map) : IsRequireOf(src[i], map[x].spec)}

\* the literal of the loader call at site i of the k-th record denotes the
\* id its specifier resolves to, and that id is a key of the emitted table
SiteDenotesId(k, i) ==
    LET src == SwcParse(ReadFile(modules[k].filename))
        map == requireMaps[modules[k].id]
        out == SwcParse(modules[k].code)
        id  == map[MapGet(map, src[i].spec)].id
    IN  /\ Len(out) = Len(src) + 1
        /\ out[i + 1].type = "call" /\ out[i + 1].lit
        /\ out[i + 1].callee = DCTC_REQUIRE
        /\ JsLiteralValue(out[i + 1].spec) = id
        /\ id \in TableKeys

\* C26: for every resolved id the string literal emitted as the argument of
\* the rewritten loader call denotes exactly that id, which is the key of
\* the module's record in the emitted table.
C26_LiteralDenotesId ==
    status = "resolved" =>
        \A k \in 1..Len(modules) :
            ~IsJsonPath(modules[k].filename) =>
                \A i \in RewrittenSites(k) : SiteDenotesId(k, i)

\* the same for the call sites whose resolved id holds no `$`
LiteralDenotesIdDollarFree ==
    status = "resolved" =>
        \A k \in 1..Len(modules) :
            ~IsJsonPath(modules[k].filename) =>
                \A i \in RewrittenSites(k) :
                    SwcParse(ReadFile(modules[k].filename))[i].spec
                            \notin {SpecE, SpecEts}
                        => SiteDenotesId(k, i)

-----------------------------------------------------------------------------
(* The traversal sets at the await points                                   *)

\* the build is suspended at an await: in loadModule (readFile,
\* parseForImports, the recursive loadModule, transformToCjs) or at the
\* call of loadModule on the entry, which has returned
BuildAwaits ==
    status = "running" /\
        (stack = <<>> \/ Top.pc \in {"readJson", "read", "parse", "deps"})

\* C33: at every await point of a build the visiting set is exactly the
\* set of module ids on the current recursion path and the visited set is
\* exactly the set of table keys; when the build completes successfully
\* the visiting set is empty.
C33_SetsAtAwaitPoints ==
    /\ BuildAwaits =>
          /\ visiting = PathIds
          /\ Cardinality(PathIds) = Len(stack)
          /\ visited = TableIds(modules)
    /\ status = "resolved" => visiting = {} /\ visited = TableIds(modules)

\* b.ts, required by the entry after another module was stored, awaits the
\* load of a dependency that is on the path (a cycle) and was skipped
C33_Witness ==
    /\ BuildAwaits /\ Len(stack) = 2
    /\ Top.pc = "deps" /\ Top.i = 2
    /\ Top.map[1].id \in PathIds
    /\ visited # {}

-----------------------------------------------------------------------------
(* Every file read and transformed once                                     *)

\* the position of an activation of loadModule, in the order of its
\* statements: the guards, the read, the parse, the resolution, the
\* dependency loop and the transform, the store, the two set updates
PcRank(pc) ==
    CASE pc = "enter" -> 0
      [] pc \in {"read", "readJson"} -> 1
      [] pc = "parse" -> 2
      [] pc = "map" -> 3
      [] pc = "deps" -> 4
      [] pc \in {"store", "storeJson"} -> 5
      [] pc = "markVisited" -> 6
      [] pc = "unmarkVisiting" -> 7

\* the innermost activation is past its guards and before its store: it
\* is to read, parse, resolve or transform its file
AtWork == Running /\ PcRank(Top.pc) \in 1..4

\* C34: within one build every module file is read at most once and
\* transformed at most once, however many modules import it and also when
\* it lies on a cycle: only one activation per id gets past the guards, it
\* goes through its statements once, and an arrival at an id that is
\* visited or visiting returns without a read, parse, resolution or
\* transform.
C34_ReadAndTransformedOnce ==
    /\ [](\A f \in DOMAIN entered : entered[f] <= 1)
    /\ [](AtWork =>
            /\ entered[TopId] = 1 /\ TopId \notin visited
            /\ \A n \in 1..(Len(stack) - 1) :
                  normalizeId(stack[n].absPath) # TopId)
    /\ [][/\ Running /\ Top.pc = "enter" /\ TopId \in visited \cup visiting =>
                /\ stack' = Pop
                /\ UNCHANGED <<modules, requireMaps, visiting, visited,
                               entered, status, thrown>>
          /\ Running /\ Running' /\ Len(stack') = Len(stack) =>
                /\ Top'.absPath = Top.absPath
                /\ PcRank(Top'.pc) > PcRank(Top.pc)]_vars

\* a second arrival at the entry, which is on the path (b.ts requires it
\* back), after another module was stored
C34_Witness ==
    /\ Running /\ Top.pc = "enter" /\ Len(stack) = 3
    /\ TopId = FileA /\ TopId \in visiting
    /\ entered[TopId] = 1
    /\ visited # {}

-----------------------------------------------------------------------------
(* Local dependencies stay inside the bundle                                *)

\* the argument of the loader call emitted at site i of the k-th record is
\* a key of the emitted table
SiteArgumentIsKey(k, i) ==
    LET out == SwcParse(modules[k].code)
    IN  /\ i + 1 <= Len(out)
        /\ out[i + 1].type = "call" /\ out[i + 1].lit
        /\ out[i + 1].callee = DCTC_REQUIRE
        /\ JsLiteralValue(out[i + 1].spec) \in TableKeys

\* the requests that reached the host require with a path as specifier
LocalHostRequests ==
    {k \in 1..Len(rtTrace) :
        rtTrace[k].e \in {"host", "MODULE_NOT_FOUND"} /\ StartsLocal(rtTrace[k].id)}

\* C32: after a successful build every id that is the argument of a
\* rewritten loader call in a record's body is a key of the emitted table,
\* in acyclic and cyclic graphs alike, and at run time no local dependency
\* falls through to the host require.
C32_LocalNeverReachesHost ==
    status = "resolved" =>
        /\ \A k \in 1..Len(modules) :
              ~IsJsonPath(modules[k].filename) =>
                  \A i \in RewrittenSites(k) : SiteArgumentIsKey(k, i)
        /\ LocalHostRequests = {}

\* the same in the projects that require no file with `$$` in its name
LocalNeverReachesHostDollarFree ==
    status = "resolved" /\ DollarFree =>
        /\ \A k \in 1..Len(modules) :
              ~IsJsonPath(modules[k].filename) =>
                  \A i \in RewrittenSites(k) : SiteArgumentIsKey(k, i)
        /\ LocalHostRequests = {}

-----------------------------------------------------------------------------
(* The rewriter applied in another order, and applied twice.  The maps     *)
(* have two entries; in some the id of one entry contains the specifier of *)
(* the other: /k.ts holds the absolute specifier /k, and the id of a file   *)
(* c.ts below the directories `require('` and `k')` holds a whole call.     *)

SpecRel  == <<".", "/", "c">>
SpecAbsK == <<"/", "k">>

IdHoldsCall ==
    <<"/">> \o REQUIRE \o <<"(", "'", "/", "k", "'", ")", "/", "c", ".", "t", "s">>

ReapplyStmts ==
    {Stmt(REQUIRE, "\"", s) : s \in {SpecRel, SpecAbsK, SpecPlain, SpecExternal}}
    \cup {Stmt(REQUIRE, "'", SpecAbsK), Stmt(REQUIRE, "'", SpecPlain)}

ReapplyMaps ==
    { <<[spec |-> SpecPlain, id |-> IdPlain], [spec |-> SpecAbsK, id |-> IdPlain]>>,
      <<[spec |-> SpecAbsK, id |-> IdPlain], [spec |-> SpecPlain, id |-> IdPlain]>>,
      <<[spec |-> SpecRel, id |-> IdHoldsCall], [spec |-> SpecAbsK, id |-> IdPlain]>>,
      <<[spec |-> SpecAbsK, id |-> IdPlain], [spec |-> SpecRel, id |-> IdHoldsCall]>> }

InitReapply ==
    /\ fsFiles = {} /\ fsDirs = {} /\ fsSrc = <<>> /\ fsReq = <<>>
    /\ ResolveIdle
    /\ BuildIdle
    /\ RunIdle
    /\ CliIdle
    /\ CallIdle
    /\ JsonIdle
    /\ SingleBuild
    /\ wStmts \in SeqsUpTo(ReapplyStmts, MaxStmts)
    /\ wMap \in ReapplyMaps
    /\ wOut = <<>>
    /\ wPc = "call"

\* the rewriter is applied to its own result, with the same map
RewriteAgain ==
    /\ wPc = "done"
    /\ wOut' = rewriteLocalRequires(wOut, wMap)
    /\ wPc' = "again"
    /\ UNCHANGED <<wStmts, wMap>>
    /\ UNCHANGED <<fsVars, resolveVars, buildVars, runVars, proc, jsonFile, cli, call>>

NextReapply == RewriteCall \/ RewriteAgain

SpecReapply == InitReapply /\ [][NextReapply]_vars

\* the entries of a two-entry map in the other order
Swapped(m) == <<m[2], m[1]>>

\* with the maps of `maps`, the result does not depend on the order of the
\* entries and a second application changes nothing
OrderFreeAndIdempotent(maps) ==
    wMap \in maps =>
        /\ wPc = "done" =>
              wOut = rewriteLocalRequires(StmtsText(wStmts), Swapped(wMap))
        /\ wPc = "again" =>
              wOut = rewriteLocalRequires(StmtsText(wStmts), wMap)

\* C36: rewriteLocalRequires never matches again a call it has rewritten:
\* the result is independent of the order of the map's entries, and a
\* second application with the same map leaves the code unchanged, also
\* when a resolved id textually contains another specifier of the map.
C36_OrderFreeAndIdempotent == OrderFreeAndIdempotent(ReapplyMaps)

\* the same for the maps none of whose ids holds the text of a whole call
\* of require on another specifier
OrderFreeAndIdempotentPlainIds ==
    OrderFreeAndIdempotent(
        {m \in ReapplyMaps : \A i \in 1..Len(m) : m[i].id # IdHoldsCall})

-----------------------------------------------------------------------------
(* Several specifiers for one file                                          *)

\* the non-JSON records of the table
SourceRecords == {k \in 1..Len(modules) : ~IsJsonPath(modules[k].filename)}

\* the specifier written at site i of the k-th record, and the id it
\* resolved to
SpecAt(k, i) == SwcParse(ReadFile(modules[k].filename))[i].spec

IdAt(k, i) ==
    LET map == requireMaps[modules[k].id]
    IN  map[MapGet(map, SpecAt(k, i))].id

\* some call site, in this module or in another, reaches the same file
\* through a different specifier
TwoSpecifiers(k, i) ==
    \E k2 \in SourceRecords : \E i2 \in RewrittenSites(k2) :
        SpecAt(k2, i2) # SpecAt(k, i) /\ IdAt(k2, i2) = IdAt(k, i)

\* the requests made at run time by the call emitted at site i of the k-th
\* record
RequestsOf(k, i) ==
    LET out == SwcParse(modules[k].code)
    IN  {x \in 1..Len(rtTrace) :
            /\ rtTrace[x].e # "assign"
            /\ rtTrace[x].from = modules[k].id
            /\ i + 1 <= Len(out) /\ out[i + 1].type = "call"
            /\ rtTrace[x].id = JsLiteralValue(out[i + 1].spec)}

\* the files reached through several specifiers, those of `excluded`
\* apart, have one record each; the call sites of their specifiers hold the
\* id of that record; their requests are answered from the table, by one
\* execution of the body and one cache entry
OneRecordShared(excluded) ==
    status = "resolved" =>
        /\ \A j, k \in 1..Len(modules) :
              modules[j].filename = modules[k].filename => j = k
        /\ \A k \in SourceRecords : \A i \in RewrittenSites(k) :
              TwoSpecifiers(k, i) /\ IdAt(k, i) \notin excluded =>
                  /\ SiteDenotesId(k, i)
                  /\ Cardinality({j \in 1..Len(modules) :
                                     modules[j].id = IdAt(k, i)}) = 1
                  /\ \A x \in RequestsOf(k, i) :
                        /\ rtTrace[x].e \in {"exec", "ret"}
                        /\ rtTrace[x].id = IdAt(k, i)
                        /\ rtTrace[x].id \in DOMAIN rtCache
                        /\ rtTrace[x].e = "ret" =>
                              \/ rtTrace[x].v = rtExports[rtCache[rtTrace[x].id]]
                              \/ AssignedBetween(rtTrace[x].id, x,
                                                 Len(rtTrace) + 1)
                  /\ Cardinality({x \in 1..Len(rtTrace) :
                                     rtTrace[x].e = "exec"
                                        /\ rtTrace[x].id = IdAt(k, i)}) <= 1

\* C35: when two different specifiers, in one module or in different
\* modules, resolve to the same file, the table holds a single record for
\* that file and the call sites of all those specifiers are rewritten to
\* the id of that record, so that at run time they share one exports
\* object.
C35_OneRecordOneExports == OneRecordShared({})

\* the same for the files whose id holds no `$$`
OneRecordSharedDollarFree == OneRecordShared({FileE})

-----------------------------------------------------------------------------
(* A body that throws                                                       *)

ErrorEvents == {"MODULE_NOT_FOUND", "RangeError", "TypeError"}

\* the step throws an exception
ThrowStep ==
    /\ Len(rtTrace') = Len(rtTrace) + 1
    /\ rtTrace'[Len(rtTrace')].e \in ErrorEvents

\* the innermost body asks the loader for an id that has a cache entry
RequestOfCached ==
    /\ AtCall /\ CurStmt.callee = DCTC_REQUIRE /\ CurStmt.lit
    /\ JsLiteralValue(CurStmt.spec) \in DOMAIN rtCache
    /\ rtTrace' # rtTrace

\* C37: when the body of a table module throws during its first
\* execution, the exception propagates to the requester (which goes on
\* after it if it made the request in a try statement, and is unwound in
\* its turn otherwise) and the module's cache entry stays registered with
\* the exports as they are; a later request for the id returns those
\* exports and does not execute the body again.
C37_ThrowKeepsCacheEntry ==
    /\ [](\A id \in DOMAIN rtCache : Executions(id) <= 1)
    /\ [][ThrowStep =>
            /\ \A m \in 1..Len(rtStack) :
                  /\ rtStack[m].id \in DOMAIN rtCache'
                  /\ rtCache'[rtStack[m].id] = rtStack[m].module
                  /\ rtExports'[rtStack[m].module] = rtExports[rtStack[m].module]
            /\ Len(rtStack') <= Len(rtStack)
            /\ \A m \in (Len(rtStack') + 1)..Len(rtStack) : m \notin Catchers
            /\ IF rtStack' = <<>>
               THEN rtState' = "threw" /\ Catchers = {}
               ELSE /\ rtState' = "running"
                    /\ Len(rtStack') \in Catchers
                    /\ rtStack' = Resume(SubSeq(rtStack, 1, Len(rtStack')))]_vars
    /\ [][RequestOfCached =>
            /\ rtTrace' = Append(rtTrace,
                    Event("ret", RtTop.id, JsLiteralValue(CurStmt.spec),
                          rtExports[rtCache[JsLiteralValue(CurStmt.spec)]]))
            /\ rtStack' = Resume(rtStack)
            /\ UNCHANGED <<rtCache, rtExports>>]_vars

\* the body of b.ts assigned module.exports and then threw; a.ts, which
\* had required it in a try statement, has required it again and received
\* the assigned value; the body of b.ts was executed once
C37_Witness ==
    /\ rtTrace # <<>>
    /\ LET r == Len(rtTrace)
       IN  /\ rtTrace[r].e = "ret" /\ rtTrace[r].id = FileB
           /\ rtTrace[r].from = FileA
           /\ \E p, q \in 1..r :
                 /\ p < q
                 /\ rtTrace[p].e = "assign" /\ rtTrace[p].from = FileB
                 /\ rtTrace[q].e \in ErrorEvents /\ rtTrace[q].from = FileB
                 /\ rtTrace[r].v = rtTrace[p].v
    /\ Executions(FileB) = 1
    /\ ~Executing(FileB)

-----------------------------------------------------------------------------
(* resolveLocal inside a build                                              *)

RegularFile(p) == p \in fsFiles /\ p \notin fsDirs

\* C27: every path resolveLocal has returned (the ids of the dependency
\* maps, the paths loadModule was called with) is an existing regular file;
\* when it throws, the error names a local specifier of the importer that
\* denotes no file, and the build is aborted: no module with such a
\* specifier gets past the resolution of its imports.
C27_ResolvesToFileOrAborts ==
    /\ \A n \in 1..Len(stack) :
          /\ \A k \in 1..Len(stack[n].map) : RegularFile(stack[n].map[k].id)
          /\ n > 1 => RegularFile(stack[n].absPath)
          /\ stack[n].pc \in {"deps", "store", "markVisited", "unmarkVisiting"} =>
                \A i \in 1..Len(stack[n].imports) :
                    DenotedFile(stack[n].imports[i]) # NULL
    /\ \A id \in DOMAIN requireMaps :
          \A k \in 1..Len(requireMaps[id]) : RegularFile(requireMaps[id][k].id)
    /\ thrown.kind = "resolve" =>
          /\ \E i \in 1..Len(fsReq[thrown.at[2]]) :
                fsReq[thrown.at[2]][i] = thrown.at[1]
          /\ StartsLocal(thrown.at[1])
          /\ DenotedFile(thrown.at[1]) = NULL
          /\ status \in {"catch", "rejected"}
          /\ status = "rejected" => outcome = thrown
    /\ status = "resolved" =>
          \A k \in 1..Len(modules) :
              \A i \in 1..Len(fsReq[modules[k].id]) :
                  StartsLocal(fsReq[modules[k].id][i]) =>
                      DenotedFile(fsReq[modules[k].id][i]) # NULL

\* a module requires the directory s, which has no index file: the build
\* was rejected with the error naming ./s, after a record had been stored
C27_Witness ==
    /\ status = "rejected"
    /\ thrown.kind = "resolve"
    /\ thrown.at[1] = SpecDir
    /\ Len(modules) >= 1

-----------------------------------------------------------------------------
(* The trailing call of the bundle                                          *)

\* the id the literal of the trailing call denotes
TrailingCallId == JsLiteralValue(outcome.entryId)

\* the requests made by the bundle itself, not by a module body
OwnCalls ==
    {k \in 1..Len(rtTrace) :
        rtTrace[k].from = <<>> /\ rtTrace[k].e \in {"exec", "host"}}

\* C28: in every emitted bundle the trailing call targets the normalized
\* absolute path of the entry file, which is a key of the emitted table with
\* the entry's record under it; the run of the bundle makes that one call,
\* starts the entry's body before any other and starts it once.
C28_TrailingCallRunsEntry ==
    status = "resolved" =>
        /\ TrailingCallId = normalizeId(entryAbs)
        /\ TrailingCallId \in TableKeys
        /\ dctc_modules(TrailingCallId).kind = "record"
        /\ dctc_modules(TrailingCallId).filename = entryAbs
        /\ rtState # "idle" =>
              /\ rtTrace[1] = Event("exec", <<>>, normalizeId(entryAbs), NoRef)
              /\ OwnCalls = {1}
              /\ Executions(normalizeId(entryAbs)) = 1

\* the run is over; the entry, stored last in the table after b.ts, was
\* started first, and b.ts asked for it again
C28_Witness ==
    /\ rtState = "done"
    /\ Len(modules) >= 2
    /\ modules[Len(modules)].id = FileA
    /\ Executions(FileB) = 1
    /\ Requests(FileA) >= 2

-----------------------------------------------------------------------------
(* The arguments of a module body                                           *)

\* the record the build stored for the id
RecordOf(id) == modules[CHOOSE k \in 1..Len(modules) : modules[k].id = id]

\* the innermost body has just had a call of its parameter `require` answered
HostRequireAnswered ==
    /\ rtState = "running"
    /\ RtTop.pc > 1
    /\ BodyOf(RtTop.id)[RtTop.pc - 1].type = "call"
    /\ BodyOf(RtTop.id)[RtTop.pc - 1].callee = REQUIRE

\* C29: every activation of a table module's body has that module's own
\* filename and directory and a module object of its own, the one the cache
\* holds for its id; no two ids share a module object or an exports
\* container; and a call of the body's parameter `require` is answered by
\* the host require.
C29_OwnIdentityValues ==
    status = "resolved" =>
        /\ \A m \in 1..Len(rtStack) :
              /\ rtStack[m].id \in TableIds(modules)
              /\ rtStack[m].filename = RecordOf(rtStack[m].id).filename
              /\ rtStack[m].dirname = PathDirname(RecordOf(rtStack[m].id).filename)
              /\ rtStack[m].filename = rtStack[m].id
              /\ rtCache[rtStack[m].id] = rtStack[m].module
        /\ \A x, y \in DOMAIN rtCache :
              x # y => /\ rtCache[x] # rtCache[y]
                       /\ rtExports[rtCache[x]] # rtExports[rtCache[y]]
        /\ HostRequireAnswered =>
              LET st == BodyOf(RtTop.id)[RtTop.pc - 1]
              IN  rtTrace[Len(rtTrace)] =
                     Event("host", RtTop.id, JsLiteralValue(st.spec),
                           HostRef(JsLiteralValue(st.spec)))

\* the body of s/x.ts, required by the entry, is executing: its directory
\* is /s, the entry's is /
C29_Witness ==
    /\ rtState = "running"
    /\ Len(rtStack) = 2
    /\ rtStack[1].id = FileA /\ rtStack[1].dirname = <<"/">>
    /\ rtStack[2].id = FileS /\ rtStack[2].dirname = DirS
    /\ rtStack[2].module # rtStack[1].module

-----------------------------------------------------------------------------
(* The table at run time                                                    *)

\* C30: once the bundle is emitted its table is the one the build made, and
\* no step of the run adds, removes or replaces an entry of it; of the
\* loader's own state only the cache changes, and only by gaining the entry
\* of the id requested.
C30_TableReadOnly ==
    /\ [](status = "resolved" => outcome = BundleOf(modules, entryAbs))
    /\ [][status = "resolved" =>
             /\ outcome' = outcome
             /\ modules' = modules
             /\ rtCache' # rtCache =>
                   /\ Cardinality(DOMAIN rtCache') = Cardinality(DOMAIN rtCache) + 1
                   /\ \A x \in DOMAIN rtCache :
                         x \in DOMAIN rtCache' /\ rtCache'[x] = rtCache[x]]_vars

\* the run is over after requests for ids of the table, one of them on a
\* cycle, and for an id that is not in the table
C30_Witness ==
    /\ rtState = "done"
    /\ Cardinality(DOMAIN rtCache) >= 2
    /\ \E k \in 1..Len(rtTrace) : rtTrace[k].e = "host"
    /\ \E k \in 1..Len(rtTrace) :
          rtTrace[k].e = "ret" /\ rtTrace[k].id = FileA /\ rtTrace[k].from # <<>>

=============================================================================
